---- MODULE Spec2Model ----
(***************************************************************************)
(* Pool matching, sequencing and dispatch engine of the carpooling         *)
(* service: rides/views.py (submit, cancel), matching/services.py          *)
(* (PoolMatchingService, PoolManager), routing/services.py                 *)
(* (RouteOptimizer), matching/tasks.py (Celery tasks) and                  *)
(* drivers/services.py (DriverAssignmentService).                          *)
(*                                                                         *)
(* The database runs in autocommit mode (settings.py sets no               *)
(* ATOMIC_REQUESTS and no code opens a transaction), so every ORM          *)
(* statement is one atomic step and handlers interleave between            *)
(* statements.  Model.save() writes every column of the row from the       *)
(* in-memory object.  A pool object that came out of a                     *)
(* prefetch_related('members__ride_request') query answers                 *)
(* pool.members.all() and pool.members.count() from the prefetched list    *)
(* until refresh_from_db() drops it.                                       *)
(***************************************************************************)
EXTENDS Integers, Sequences, FiniteSets, TLC

-----------------------------------------------------------------------------
(* Bounds of the model *)

\* ride requests submitted during a behaviour have ids 1..MaxRides
MaxRides == 2
\* the clock (minutes) stops advancing at MaxTime
MaxTime == 20
\* driver_accept_pool task instances
MaxAccepts == 2
\* manual re-dispatches and availability updates per behaviour
MaxManual == 1
\* cancel_ride calls per behaviour
MaxCancels == 1
\* longest list a service function is called with
MaxLen == 3
\* calls of create_pool / add_to_pool in one run of the two PoolManager classes
MaxCalls == 3

\* minutes added by one clock step
TickMinutes == 10
\* drivers registered in the database
NumDrivers == 2
\* max_riders values an administrator has given to a pool that exists at start
InitMaxRiders == {1, 2}

-----------------------------------------------------------------------------
(* Program constants *)

max_pickup_distance == 3000
max_destination_distance == 3000
\* max_detour_percentage = 0.15, in hundredths
max_detour_percentage == 15
\* max_wait_time = timedelta(minutes=10) of PoolMatchingService, in minutes
max_wait_time == 10
\* timedelta(minutes=10) of close_expired_pools
expiry_age == 10
\* Pool.max_riders default
default_max_riders == 4
\* Pool.max_wait_time default, in minutes
default_max_wait_time == 10
max_assignment_distance == 10000
assignment_timeout == 60
\* tolerance 0.0001 degree of _all_requests_identical, in microdegrees
identical_tolerance == 100

NULL == -1

RideIds == 0..MaxRides
NewRideIds == 1..MaxRides
DriverIds == 1..NumDrivers
AcceptIds == 1..MaxAccepts

-----------------------------------------------------------------------------
(* Coordinates.  DecimalField(max_digits=9, decimal_places=6): a coordinate  *)
(* is an integer number of microdegrees.  Kind A and B are the two requests  *)
(* of the pooling scenario, C is A moved by less than the tolerance, D has  *)
(* the pickup of A and a destination 7.8 km from A's, F is far away, G is A  *)
(* moved to 1.1 km east of the prime meridian, S is a 0.8 km trip that       *)
(* starts at the destination of A.                                            *)

\* the coordinates request r is submitted with
KindOf(r) == IF r = 3 THEN "B" ELSE "A"

Coord(k) ==
    CASE k = "A" -> [plat |-> 10000000, plng |-> 10000000, dlat |-> 10050000, dlng |-> 10050000]
      [] k = "B" -> [plat |-> 10001000, plng |-> 10001000, dlat |-> 10051000, dlng |-> 10051000]
      [] k = "C" -> [plat |-> 10000050, plng |-> 10000000, dlat |-> 10050000, dlng |-> 10050050]
      [] k = "D" -> [plat |-> 10000000, plng |-> 10000000, dlat |-> 10100000, dlng |-> 10100000]
      [] k = "G" -> [plat |-> 10000000, plng |-> 10000, dlat |-> 10050000, dlng |-> 60000]
      [] k = "S" -> [plat |-> 10050000, plng |-> 10050000, dlat |-> 10055000, dlng |-> 10055000]
      [] OTHER   -> [plat |-> 10150000, plng |-> 10150000, dlat |-> 10100000, dlng |-> 10100000]

\* fare_estimate of ride r (0 stands for an absent or zero estimate, both falsy)
FareOf(r) == (r + 1) % 3

Abs(x) == IF x < 0 THEN -x ELSE x

RECURSIVE ISqrtBetween(_, _, _)
ISqrtBetween(n, lo, hi) ==
    IF lo >= hi THEN lo
    ELSE LET mid == (lo + hi + 1) \div 2
         IN IF mid * mid <= n THEN ISqrtBetween(n, mid, hi)
                              ELSE ISqrtBetween(n, lo, mid - 1)

ISqrt(n) == ISqrtBetween(n, 0, 30000)

\* cos(latitude) * 10000 in the latitude band 10.0 .. 10.15 of the modelled points
CosLatE4 == 9847

\* Great-circle distance in centimetres between two points given in
\* microdegrees.  R * pi / 180 = 111194.93 m per degree = 11.119493 cm per
\* microdegree.  For the short distances of the model the haversine formula
\* is R * sqrt(dlat^2 + cos(lat1) cos(lat2) dlon^2) up to a relative error
\* below 1e-5; the square root is taken on 10-microdegree units.
haversine_distance(lat1, lon1, lat2, lon2) ==
    LET dlat == Abs(lat2 - lat1)
        dlon == (Abs(lon2 - lon1) * CosLatE4) \div 10000
    IN  IF dlon = 0 THEN (dlat * 11119) \div 1000
        ELSE IF dlat = 0 THEN (dlon * 11119) \div 1000
        ELSE LET a == dlat \div 10
                 b == dlon \div 10
             IN (ISqrt(a * a + b * b) * 11119) \div 100

RECURSIVE SumLat(_), SumLng(_)
SumLat(points) == IF points = <<>> THEN 0 ELSE Head(points)[1] + SumLat(Tail(points))
SumLng(points) == IF points = <<>> THEN 0 ELSE Head(points)[2] + SumLng(Tail(points))

\* mean of the points, rounded down to a microdegree
calculate_centroid(points) ==
    IF points = <<>> THEN <<0, 0>>
    ELSE <<SumLat(points) \div Len(points), SumLng(points) \div Len(points)>>

-----------------------------------------------------------------------------
(* RouteOptimizer (routing/services.py) *)

generate_feasible_sequence(ride_requests) ==
    [i \in 1..Len(ride_requests) |-> <<ride_requests[i], TRUE>>]
      \o [i \in 1..Len(ride_requests) |-> <<ride_requests[i], FALSE>>]

\* the dict written in input order: a repeated id keeps the last counter value
OrderDict(ride_requests) ==
    [id \in {ride_requests[i] : i \in 1..Len(ride_requests)} |->
        CHOOSE i \in 1..Len(ride_requests) :
            /\ ride_requests[i] = id
            /\ \A j \in 1..Len(ride_requests) : ride_requests[j] = id => j <= i]

assign_orders(sequence, ride_requests) ==
    [sequence |-> sequence,
     pickup_orders |-> OrderDict(ride_requests),
     dropoff_orders |-> OrderDict(ride_requests)]

simple_route(ride_request) ==
    [sequence |-> <<<<ride_request, TRUE>>, <<ride_request, FALSE>>>>,
     pickup_orders |-> [id \in {ride_request} |-> 1],
     dropoff_orders |-> [id \in {ride_request} |-> 1]]

optimize_route(ride_requests) ==
    IF Len(ride_requests) = 1 THEN simple_route(ride_requests[1])
    ELSE assign_orders(generate_feasible_sequence(ride_requests), ride_requests)

-----------------------------------------------------------------------------
(* PoolMatchingService (matching/services.py).  A request is the record of  *)
(* its four coordinates; a pool is seen through the list of its members'    *)
(* requests in the order the query returned them.                            *)

all_requests_identical(ride_requests) ==
    IF Len(ride_requests) <= 1 THEN TRUE
    ELSE LET first == ride_requests[1]
         IN \A i \in 2..Len(ride_requests) :
               /\ Abs(first.plat - ride_requests[i].plat) < identical_tolerance
               /\ Abs(first.plng - ride_requests[i].plng) < identical_tolerance
               /\ Abs(first.dlat - ride_requests[i].dlat) < identical_tolerance
               /\ Abs(first.dlng - ride_requests[i].dlng) < identical_tolerance

\* the loop of _estimate_pool_route_distance from request i on; cur is the
\* current position (the destination of the previous request)
RECURSIVE RouteFrom(_, _, _)
RouteFrom(ride_requests, i, cur) ==
    IF i > Len(ride_requests) THEN 0
    ELSE LET rr == ride_requests[i]
             pickup_dist == IF i > 1 /\ (cur[1] # rr.plat \/ cur[2] # rr.plng)
                            THEN haversine_distance(cur[1], cur[2], rr.plat, rr.plng)
                            ELSE 0
             leg_dist == haversine_distance(rr.plat, rr.plng, rr.dlat, rr.dlng)
         IN pickup_dist + leg_dist + RouteFrom(ride_requests, i + 1, <<rr.dlat, rr.dlng>>)

\* estimate_pool_route_distance without the branch for identical requests
estimate_pool_route_distance_no_shared_ride(ride_requests) ==
    IF ride_requests = <<>> THEN 0
    ELSE RouteFrom(ride_requests, 1, <<ride_requests[1].plat, ride_requests[1].plng>>)

estimate_pool_route_distance(ride_requests) ==
    IF ride_requests = <<>> THEN 0
    ELSE IF all_requests_identical(ride_requests)
    THEN haversine_distance(ride_requests[1].plat, ride_requests[1].plng,
                            ride_requests[1].dlat, ride_requests[1].dlng)
    ELSE RouteFrom(ride_requests, 1, <<ride_requests[1].plat, ride_requests[1].plng>>)

is_pickup_near_pool(ride_request, pool_members) ==
    IF pool_members = <<>> THEN FALSE
    ELSE LET c == calculate_centroid([i \in 1..Len(pool_members) |->
                                         <<pool_members[i].plat, pool_members[i].plng>>])
         IN haversine_distance(ride_request.plat, ride_request.plng, c[1], c[2])
               <= max_pickup_distance * 100

is_destination_near_pool(ride_request, pool_members) ==
    IF pool_members = <<>> THEN FALSE
    ELSE LET c == calculate_centroid([i \in 1..Len(pool_members) |->
                                         <<pool_members[i].dlat, pool_members[i].dlng>>])
         IN haversine_distance(ride_request.dlat, ride_request.dlng, c[1], c[2])
               <= max_destination_distance * 100

\* is_route_compatible that fails when the current route distance is 0
is_route_compatible_reject_zero_base(ride_request, pool_members) ==
    LET current_route_distance == estimate_pool_route_distance(pool_members)
        new_route_distance == estimate_pool_route_distance(Append(pool_members, ride_request))
    IN IF current_route_distance > 0
       THEN 100 * (new_route_distance - current_route_distance)
               <= max_detour_percentage * current_route_distance
       ELSE FALSE

\* detour_percentage <= 0.15, with both sides multiplied by 100 * current
is_route_compatible(ride_request, pool_members) ==
    LET current_route_distance == estimate_pool_route_distance(pool_members)
        new_route_distance == estimate_pool_route_distance(Append(pool_members, ride_request))
    IN IF current_route_distance > 0
       THEN 100 * (new_route_distance - current_route_distance)
               <= max_detour_percentage * current_route_distance
       ELSE TRUE

is_within_time_window(created_at, t) == t - created_at <= max_wait_time

\* _is_valid_match without the member count test and the two centroid tests
is_valid_match_no_member_test(ride_request, pool_members, created_at, t) ==
    /\ is_route_compatible(ride_request, pool_members)
    /\ is_within_time_window(created_at, t)

is_valid_match(ride_request, pool_members, created_at, t) ==
    /\ Len(pool_members) # 0
    /\ is_pickup_near_pool(ride_request, pool_members)
    /\ is_destination_near_pool(ride_request, pool_members)
    /\ is_route_compatible(ride_request, pool_members)
    /\ is_within_time_window(created_at, t)

-----------------------------------------------------------------------------
(* State *)

VARIABLES
    pools,      \* table Pool: row i is the pool with id i
    members,    \* table PoolMembership, rows in insertion order
    rides,      \* table RideRequest: status and coordinates of each request
    drivers,    \* table Driver
    trips,      \* table Trip, rows in insertion order
    now,        \* timezone.now(), in minutes
    queue,      \* Celery broker: number of pending tasks of each kind per pool
    req,        \* position and locals of the request_ride call of each ride
    swp,        \* position and locals of the running close_expired_pools task
    dsp,        \* position and locals of the running assign_driver_to_pool task per pool
    acc,        \* position and locals of each driver_accept_pool task
    offers,     \* pool_assignment events sent to driver groups
    hist,       \* counters of what has been sent or enqueued
    call        \* a call of a pure function of the services: its arguments and result

dbVars == <<pools, members, rides, drivers, trips>>
vars == <<pools, members, rides, drivers, trips, now, queue, req, swp, dsp, acc, offers, hist, call>>

PoolIds == 1..(MaxRides + 1)

\* an in-memory Pool instance: the primary key and a copy of every column
PoolObj(p, row) ==
    [id |-> p, status |-> row.status, max_riders |-> row.max_riders,
     max_wait_time |-> row.max_wait_time,
     created_at |-> row.created_at, closed_at |-> row.closed_at,
     estimated_fare |-> row.estimated_fare]

\* the row Model.save() writes for the instance
RowOf(obj) ==
    [status |-> obj.status, max_riders |-> obj.max_riders,
     max_wait_time |-> obj.max_wait_time,
     created_at |-> obj.created_at, closed_at |-> obj.closed_at,
     estimated_fare |-> obj.estimated_fare]

NoObj == [id |-> 0, status |-> "none", max_riders |-> 0, max_wait_time |-> 0, created_at |-> 0,
          closed_at |-> NULL, estimated_fare |-> NULL]

\* Pool.objects.create(): the column defaults of rides/models.py
NewPoolRow(t) ==
    [status |-> "open", max_riders |-> default_max_riders,
     max_wait_time |-> default_max_wait_time, created_at |-> t,
     closed_at |-> NULL, estimated_fare |-> NULL]

\* pool.save(): UPDATE of every column of the row with the instance's key
SavePool(tbl, obj) == [tbl EXCEPT ![obj.id] = RowOf(obj)]

\* pool.members.all() evaluated on the database
MembersOf(tbl, p) == SelectSeq(tbl, LAMBDA m : m.pool = p)

\* PoolMembership.objects.filter(pool=pool).delete()
DeleteMembers(tbl, p) == SelectSeq(tbl, LAMBDA m : m.pool # p)

RideSeq(ms) == [i \in 1..Len(ms) |-> ms[i].ride_request]

CoordSeq(rs) == [i \in 1..Len(rs) |-> Coord(rides[rs[i]].kind)]

SeqToSet(s) == {s[i] : i \in 1..Len(s)}

\* open_pools without the status='open' condition
open_pools_any_status(t) ==
    SelectSeq([i \in 1..Len(pools) |-> i], LAMBDA p : pools[p].created_at >= t - max_wait_time)

\* Pool.objects.filter(status='open', created_at__gte=now - max_wait_time), by id
open_pools(t) ==
    SelectSeq([i \in 1..Len(pools) |-> i],
              LAMBDA p : pools[p].status = "open" /\ pools[p].created_at >= t - max_wait_time)

\* find_matching_pools: the open pools query with its prefetched members,
\* filtered by _is_valid_match
find_matching_pools(ride_request, t) ==
    SelectSeq(open_pools(t),
              LAMBDA p : is_valid_match(ride_request,
                                        CoordSeq(RideSeq(MembersOf(members, p))),
                                        pools[p].created_at, t))

\* _update_pool_members_order: the distinct requests of the sequence in order
\* of first appearance, or the new request when the sequence has none
RECURSIVE Dedupe(_, _)
Dedupe(s, seen) ==
    IF s = <<>> THEN <<>>
    ELSE IF Head(s) \in seen THEN Dedupe(Tail(s), seen)
    ELSE <<Head(s)>> \o Dedupe(Tail(s), seen \cup {Head(s)})

unique_requests(optimized_route, new_ride_request) ==
    LET u == Dedupe([i \in 1..Len(optimized_route.sequence) |-> optimized_route.sequence[i][1]], {})
    IN IF u = <<>> THEN <<new_ride_request>> ELSE u

DictGet(d, key, default) == IF key \in DOMAIN d THEN d[key] ELSE default

\* the memberships _update_pool_members_order creates, in creation order
memberships_to_create(p, optimized_route, new_ride_request) ==
    LET u == unique_requests(optimized_route, new_ride_request)
    IN [i \in 1..Len(u) |->
          [pool |-> p, ride_request |-> u[i],
           pickup_order |-> DictGet(optimized_route.pickup_orders, u[i], 1),
           dropoff_order |-> DictGet(optimized_route.dropoff_orders, u[i], 1)]]

\* the rows add_to_pool writes for request r joining a pool whose
\* pool.members.all() gave current_members
add_to_pool_rows(p, current_members, r) ==
    memberships_to_create(p, optimize_route(Append(current_members, r)), r)

\* no call of a service function is being followed
NoCall == [fn |-> "none", pc |-> "none", ids |-> <<>>, kinds |-> <<>>,
           route |-> [sequence |-> <<>>, pickup_orders |-> <<>>, dropoff_orders |-> <<>>],
           distance |-> 0, ok |-> FALSE]

IdleReq == [pc |-> "idle", cands |-> <<>>, pool |-> NoObj, cache |-> <<>>, k |-> 0, result |-> "none"]
IdleSwp == [pc |-> "idle", list |-> <<>>]
IdleDsp == [pc |-> "idle", pool |-> NoObj, centroid |-> <<NULL, NULL>>, nearby |-> <<>>,
            seen |-> [d \in DriverIds |-> FALSE]]
IdleAcc == [pc |-> "idle", driver_id |-> 0, pool_id |-> 0, pool |-> NoObj, result |-> "none"]

ZeroCount == [p \in PoolIds |-> 0]

-----------------------------------------------------------------------------
(* RideRequestViewSet.request_ride (rides/views.py) with the PoolManager of *)
(* matching/services.py.  One action per database statement.                *)

Truthy(x) == x # NULL /\ x # 0

\* serializer.save(rider=request.user): INSERT of the request, status 'pending'.
\* Ids are given out in sequence.
request_ride_save(r) ==
    /\ req[r].pc = "idle"
    /\ rides[r].status = "none"
    /\ \A q \in NewRideIds : q < r => rides[q].status # "none"
    /\ rides' = [rides EXCEPT ![r] = [status |-> "pending", kind |-> KindOf(r)]]
    /\ req' = [req EXCEPT ![r].pc = "find"]
    /\ UNCHANGED <<pools, members, drivers, trips, now, queue, swp, dsp, acc, offers, hist, call>>

\* request_ride_find with pool = matching_pools[-1]
request_ride_find_last(r) ==
    /\ req[r].pc = "find"
    /\ LET cands == find_matching_pools(Coord(rides[r].kind), now)
       IN req' = [req EXCEPT ![r] =
                    IF cands # <<>>
                    THEN [@ EXCEPT !.pc = "join", !.cands = cands,
                                   !.pool = PoolObj(cands[Len(cands)], pools[cands[Len(cands)]]),
                                   !.cache = RideSeq(MembersOf(members, cands[Len(cands)]))]
                    ELSE [@ EXCEPT !.pc = "new"]]
    /\ UNCHANGED <<dbVars, now, queue, swp, dsp, acc, offers, hist, call>>

\* matching_pools = find_matching_pools(ride_request); pool = matching_pools[0].
\* The chosen instance carries the members prefetched by the query.
request_ride_find(r) ==
    /\ req[r].pc = "find"
    /\ LET cands == find_matching_pools(Coord(rides[r].kind), now)
       IN req' = [req EXCEPT ![r] =
                    IF cands # <<>>
                    THEN [@ EXCEPT !.pc = "join", !.cands = cands,
                                   !.pool = PoolObj(cands[1], pools[cands[1]]),
                                   !.cache = RideSeq(MembersOf(members, cands[1]))]
                    ELSE [@ EXCEPT !.pc = "new"]]
    /\ UNCHANGED <<dbVars, now, queue, swp, dsp, acc, offers, hist, call>>

\* add_to_pool up to the DELETE of _update_pool_members_order;
\* current_members = list(pool.members.all()) is the prefetched list
add_to_pool_delete(r) ==
    /\ req[r].pc = "join"
    /\ members' = DeleteMembers(members, req[r].pool.id)
    /\ req' = [req EXCEPT ![r].pc = "recreate", ![r].k = 1]
    /\ UNCHANGED <<pools, rides, drivers, trips, now, queue, swp, dsp, acc, offers, hist, call>>

\* one PoolMembership.objects.create of the loop; after the last one the
\* test pool.members.count() >= pool.max_riders, answered by the prefetched list
add_to_pool_create(r) ==
    /\ req[r].pc = "recreate"
    /\ LET rows == add_to_pool_rows(req[r].pool.id, req[r].cache, r)
           k == req[r].k
       IN /\ members' = Append(members, rows[k])
          /\ req' = [req EXCEPT ![r].k = k + 1,
                                ![r].pc = IF k < Len(rows) THEN "recreate"
                                          ELSE IF Len(req[r].cache) >= req[r].pool.max_riders
                                               THEN "fill" ELSE "fare"]
    /\ UNCHANGED <<pools, rides, drivers, trips, now, queue, swp, dsp, acc, offers, hist, call>>

\* pool.status = 'filled'; pool.closed_at = now; pool.save();
\* assign_driver_to_pool.delay(pool.id)
add_to_pool_fill(r) ==
    /\ req[r].pc = "fill"
    /\ LET obj == [req[r].pool EXCEPT !.status = "filled", !.closed_at = now]
       IN /\ pools' = SavePool(pools, obj)
          /\ req' = [req EXCEPT ![r].pool = obj, ![r].pc = "fare"]
          /\ queue' = [queue EXCEPT !.assign[obj.id] = @ + 1]
          /\ hist' = [hist EXCEPT !.assign_enqueued[obj.id] = @ + 1]
    /\ UNCHANGED <<members, rides, drivers, trips, now, swp, dsp, acc, offers, call>>

\* the fare update of the join branch (pool.save() of the in-memory pool when
\* the request has a fare estimate), refresh_from_db and the response
request_ride_joined(r) ==
    /\ req[r].pc = "fare"
    /\ LET old == req[r].pool.estimated_fare
           obj == [req[r].pool EXCEPT !.estimated_fare = (IF Truthy(old) THEN old ELSE 0) + FareOf(r)]
       IN /\ pools' = IF Truthy(FareOf(r)) THEN SavePool(pools, obj) ELSE pools
          /\ req' = [req EXCEPT ![r] = [IdleReq EXCEPT !.pc = "done", !.result = "joined_pool",
                                                       !.cands = req[r].cands,
                                                       !.pool = [NoObj EXCEPT !.id = obj.id]]]
    /\ UNCHANGED <<members, rides, drivers, trips, now, queue, swp, dsp, acc, offers, hist, call>>

\* create_pool: Pool.objects.create()
create_pool_pool(r) ==
    /\ req[r].pc = "new"
    /\ Len(pools) < MaxRides + 1
    /\ pools' = Append(pools, NewPoolRow(now))
    /\ req' = [req EXCEPT ![r].pc = "newmember", ![r].pool = PoolObj(Len(pools) + 1, NewPoolRow(now))]
    /\ UNCHANGED <<members, rides, drivers, trips, now, queue, swp, dsp, acc, offers, hist, call>>

\* create_pool: PoolMembership.objects.create(pool, ride_request, 1, 1)
create_pool_member(r) ==
    /\ req[r].pc = "newmember"
    /\ members' = Append(members, [pool |-> req[r].pool.id, ride_request |-> r,
                                   pickup_order |-> 1, dropoff_order |-> 1])
    /\ req' = [req EXCEPT ![r].pc = "newfare"]
    /\ UNCHANGED <<pools, rides, drivers, trips, now, queue, swp, dsp, acc, offers, hist, call>>

\* the fare update of the new-pool branch and the response
request_ride_created(r) ==
    /\ req[r].pc = "newfare"
    /\ LET obj == [req[r].pool EXCEPT !.estimated_fare = FareOf(r)]
       IN /\ pools' = IF Truthy(FareOf(r)) THEN SavePool(pools, obj) ELSE pools
          /\ req' = [req EXCEPT ![r] = [IdleReq EXCEPT !.pc = "done", !.result = "new_pool_created",
                                                       !.pool = [NoObj EXCEPT !.id = obj.id]]]
    /\ UNCHANGED <<members, rides, drivers, trips, now, queue, swp, dsp, acc, offers, hist, call>>

TerminalStatuses == {"completed", "expired", "cancelled"}

\* the stored status of the pool of the first membership of request r, "none"
\* when r has no membership
PoolStatusOf(r) ==
    LET ms == SelectSeq(members, LAMBDA m : m.ride_request = r)
    IN IF ms = <<>> THEN "none" ELSE pools[ms[1].pool].status

\* cancel_ride as it would run if rides/views.py imported PoolMembership: the
\* pool of the first membership is cancelled when it has one member,
\* otherwise the membership is deleted
cancel_ride_with_pool_branch(r) ==
    /\ hist.cancel_errors < MaxCancels
    /\ rides[r].status \notin {"none", "completed", "cancelled"}
    /\ rides' = [rides EXCEPT ![r].status = "cancelled"]
    /\ hist' = [hist EXCEPT !.cancel_errors = @ + 1,
                            !.cancel_terminal = @ \/ PoolStatusOf(r) \in TerminalStatuses]
    /\ LET ms == SelectSeq(members, LAMBDA m : m.ride_request = r)
       IN IF ms = <<>> THEN UNCHANGED <<pools, members>>
          ELSE IF Len(SelectSeq(members, LAMBDA m : m.pool = ms[1].pool)) = 1
          THEN /\ pools' = [pools EXCEPT ![ms[1].pool].status = "cancelled"]
               /\ members' = members
          ELSE /\ members' = SelectSeq(members, LAMBDA m : m # ms[1])
               /\ pools' = pools
    /\ UNCHANGED <<drivers, trips, now, queue, req, swp, dsp, acc, offers, call>>

\* RideRequestViewSet.cancel_ride: the status is saved, then the lookup of
\* PoolMembership raises NameError (rides/views.py imports RideRequest, Pool
\* and Trip only), so the pool branch never runs and the call ends in an error.
\* hist.cancel_terminal records that the request's pool was in a terminal status
\* at that moment.
cancel_ride(r) ==
    /\ hist.cancel_errors < MaxCancels
    /\ rides[r].status \notin {"none", "completed", "cancelled"}
    /\ rides' = [rides EXCEPT ![r].status = "cancelled"]
    /\ hist' = [hist EXCEPT !.cancel_errors = @ + 1,
                            !.cancel_terminal = @ \/ PoolStatusOf(r) \in TerminalStatuses]
    /\ UNCHANGED <<pools, members, drivers, trips, now, queue, req, swp, dsp, acc, offers, call>>

-----------------------------------------------------------------------------
(* close_expired_pools and the clock *)

\* close_expired_pools whose query selects the filled pools instead of the open ones
close_expired_pools_query_filled ==
    /\ swp.pc = "idle"
    /\ LET ids == SelectSeq([i \in 1..Len(pools) |-> i],
                            LAMBDA p : pools[p].status = "filled"
                                       /\ pools[p].created_at <= now - expiry_age)
       IN /\ ids # <<>>
          /\ swp' = [pc |-> "run", list |-> [i \in 1..Len(ids) |-> PoolObj(ids[i], pools[ids[i]])]]
    /\ UNCHANGED <<dbVars, now, queue, req, dsp, acc, offers, hist, call>>

\* the query of close_expired_pools, evaluated by the for loop
close_expired_pools_query ==
    /\ swp.pc = "idle"
    /\ LET ids == SelectSeq([i \in 1..Len(pools) |-> i],
                            LAMBDA p : pools[p].status = "open"
                                       /\ pools[p].created_at <= now - expiry_age)
       IN /\ ids # <<>>
          /\ swp' = [pc |-> "run", list |-> [i \in 1..Len(ids) |-> PoolObj(ids[i], pools[ids[i]])]]
    /\ UNCHANGED <<dbVars, now, queue, req, dsp, acc, offers, hist, call>>

\* one turn of the loop: pool.status = 'expired'; pool.save();
\* notify_pool_expired.delay(pool.id)
close_expired_pools_save ==
    /\ swp.pc = "run"
    /\ LET obj == [Head(swp.list) EXCEPT !.status = "expired"]
       IN /\ pools' = SavePool(pools, obj)
          /\ queue' = [queue EXCEPT !.expired[obj.id] = @ + 1]
          /\ hist' = [hist EXCEPT !.expired_enqueued[obj.id] = @ + 1]
    /\ swp' = IF Len(swp.list) = 1 THEN IdleSwp ELSE [swp EXCEPT !.list = Tail(@)]
    /\ UNCHANGED <<members, rides, drivers, trips, now, req, dsp, acc, offers, call>>

\* The clock.  Only the age of an open pool is ever read (by the matcher and
\* by the sweep), so the clock is advanced only while some pool is open.
Tick ==
    /\ now < MaxTime
    /\ \E p \in 1..Len(pools) : pools[p].status = "open"
    /\ now' = now + TickMinutes
    /\ UNCHANGED <<dbVars, queue, req, swp, dsp, acc, offers, hist, call>>

-----------------------------------------------------------------------------
(* DriverAssignmentService (drivers/services.py) *)

\* _calculate_pool_centroid: the mean of the members' pickups; None (NULL)
\* for a pool without members
calculate_pool_centroid(ms) ==
    IF ms = <<>> THEN <<NULL, NULL>>
    ELSE calculate_centroid([i \in 1..Len(ms) |->
             <<Coord(rides[ms[i].ride_request].kind).plat, Coord(rides[ms[i].ride_request].kind).plng>>])

DriverDistance(centroid, row) == haversine_distance(centroid[1], centroid[2], row.lat, row.lng)

\* stable insertion of driver d into a list sorted by distance
RECURSIVE InsertByDistance(_, _, _, _)
InsertByDistance(sorted, d, centroid, tbl) ==
    IF sorted = <<>> THEN <<d>>
    ELSE IF DriverDistance(centroid, tbl[d]) < DriverDistance(centroid, tbl[Head(sorted)])
    THEN <<d>> \o sorted
    ELSE <<Head(sorted)>> \o InsertByDistance(Tail(sorted), d, centroid, tbl)

RECURSIVE SortByDistance(_, _, _)
SortByDistance(ds, centroid, tbl) ==
    IF ds = <<>> THEN <<>>
    ELSE InsertByDistance(SortByDistance(SubSeq(ds, 1, Len(ds) - 1), centroid, tbl),
                          ds[Len(ds)], centroid, tbl)

\* available_drivers without the is_available=True condition
available_drivers_any(tbl, count) ==
    SelectSeq([i \in 1..NumDrivers |-> i], LAMBDA d : tbl[d].max_capacity >= count)

\* Driver.objects.filter(is_available=True, max_capacity__gte=count), by id
available_drivers(tbl, count) ==
    SelectSeq([i \in 1..NumDrivers |-> i],
              LAMBDA d : tbl[d].is_available /\ tbl[d].max_capacity >= count)

\* find_available_drivers_near_pool after the centroid: the available drivers
\* with a truthy latitude and longitude within max_assignment_distance,
\* closest first
find_available_drivers_near_pool(centroid, count, tbl) ==
    IF centroid = <<NULL, NULL>> THEN <<>>
    ELSE SortByDistance(
            SelectSeq(available_drivers(tbl, count),
                      LAMBDA d : /\ Truthy(tbl[d].lat) /\ Truthy(tbl[d].lng)
                                 /\ DriverDistance(centroid, tbl[d]) <= max_assignment_distance * 100),
            centroid, tbl)

-----------------------------------------------------------------------------
(* Celery tasks of matching/tasks.py *)

PoolExists(p) == p \in 1..Len(pools)

\* dispatch_get with Pool.objects.get(id=pool_id), whatever the status
dispatch_get_any_status(p) ==
    /\ queue.assign[p] > 0
    /\ dsp[p].pc = "idle"
    /\ queue' = [queue EXCEPT !.assign[p] = @ - 1]
    /\ dsp' = [dsp EXCEPT ![p] = IF PoolExists(p)
                                 THEN [IdleDsp EXCEPT !.pc = "centroid", !.pool = PoolObj(p, pools[p])]
                                 ELSE IdleDsp]
    /\ UNCHANGED <<dbVars, now, req, swp, acc, offers, hist, call>>

\* assign_driver_to_pool: Pool.objects.get(id=pool_id, status='filled');
\* DoesNotExist ends the task
dispatch_get(p) ==
    /\ queue.assign[p] > 0
    /\ dsp[p].pc = "idle"
    /\ queue' = [queue EXCEPT !.assign[p] = @ - 1]
    /\ dsp' = [dsp EXCEPT ![p] = IF PoolExists(p) /\ pools[p].status = "filled"
                                 THEN [IdleDsp EXCEPT !.pc = "centroid", !.pool = PoolObj(p, pools[p])]
                                 ELSE IdleDsp]
    /\ UNCHANGED <<dbVars, now, req, swp, acc, offers, hist, call>>

\* find_available_drivers_near_pool: the members query of _calculate_pool_centroid
dispatch_centroid(p) ==
    /\ dsp[p].pc = "centroid"
    /\ dsp' = [dsp EXCEPT ![p].pc = "drivers",
                          ![p].centroid = calculate_pool_centroid(MembersOf(members, p))]
    /\ UNCHANGED <<dbVars, now, queue, req, swp, acc, offers, hist, call>>

\* dispatch_drivers that stores status open for the pool when no driver is found
dispatch_drivers_reopen_when_none(p) ==
    /\ dsp[p].pc = "drivers"
    /\ LET nearby == find_available_drivers_near_pool(dsp[p].centroid,
                                                      Len(MembersOf(members, p)), drivers)
       IN /\ dsp' = [dsp EXCEPT ![p] = IF nearby = <<>> THEN IdleDsp
                                       ELSE [@ EXCEPT !.pc = "notify", !.nearby = nearby,
                                                      !.seen = [d \in DriverIds |-> drivers[d].is_available]]]
          /\ pools' = IF nearby = <<>> THEN [pools EXCEPT ![p].status = "open"] ELSE pools
    /\ UNCHANGED <<members, rides, drivers, trips, now, queue, req, swp, acc, offers, hist, call>>

\* find_available_drivers_near_pool: pool.members.count() and the drivers
\* query; an empty result ends the task
dispatch_drivers(p) ==
    /\ dsp[p].pc = "drivers"
    /\ LET nearby == find_available_drivers_near_pool(dsp[p].centroid,
                                                      Len(MembersOf(members, p)), drivers)
       IN dsp' = [dsp EXCEPT ![p] = IF nearby = <<>> THEN IdleDsp
                                    ELSE [@ EXCEPT !.pc = "notify", !.nearby = nearby,
                                                   !.seen = [d \in DriverIds |-> drivers[d].is_available]]]
    /\ UNCHANGED <<dbVars, now, queue, req, swp, acc, offers, hist, call>>

\* notify_drivers_of_pool: one pool_assignment event per driver of the list,
\* then wait_for_driver_acceptance.apply_async(countdown=assignment_timeout)
dispatch_notify(p) ==
    /\ dsp[p].pc = "notify"
    /\ offers' = offers \cup {[driver |-> dsp[p].nearby[i], pool |-> p,
                               available_at_query |-> dsp[p].seen[dsp[p].nearby[i]]]
                              : i \in 1..Len(dsp[p].nearby)}
    /\ queue' = [queue EXCEPT !.wait[p] = @ + 1]
    /\ dsp' = [dsp EXCEPT ![p] = IdleDsp]
    /\ UNCHANGED <<dbVars, now, req, swp, acc, hist, call>>

\* wait_for_driver_acceptance that stores status expired for a pool that
\* exists and is not driver_assigned
wait_for_driver_acceptance_expires(p) ==
    /\ queue.wait[p] > 0
    /\ queue' = [queue EXCEPT !.wait[p] = @ - 1]
    /\ pools' = IF PoolExists(p) /\ pools[p].status # "driver_assigned"
                THEN [pools EXCEPT ![p].status = "expired"] ELSE pools
    /\ UNCHANGED <<members, rides, drivers, trips, now, req, swp, dsp, acc, offers, hist, call>>

\* wait_for_driver_acceptance: Pool.objects.get(id=pool_id), a print when the
\* status is not driver_assigned, DoesNotExist caught; nothing is written
wait_for_driver_acceptance(p) ==
    /\ queue.wait[p] > 0
    /\ queue' = [queue EXCEPT !.wait[p] = @ - 1]
    /\ UNCHANGED <<dbVars, now, req, swp, dsp, acc, offers, hist, call>>

\* an operator calls assign_driver_to_pool.delay(pool_id) by hand, for a pool
\* that has no dispatch pending or running
manual_dispatch(p) ==
    /\ hist.manual < MaxManual
    /\ queue.assign[p] = 0
    /\ dsp[p].pc = "idle"
    /\ queue' = [queue EXCEPT !.assign[p] = @ + 1]
    /\ hist' = [hist EXCEPT !.manual = @ + 1]
    /\ UNCHANGED <<dbVars, now, req, swp, dsp, acc, offers, call>>

\* accept_get with Pool.objects.get(id=pool_id), whatever the status
accept_get_any_status(a, d, p) ==
    /\ acc[a].pc = "idle"
    /\ \A b \in AcceptIds : b < a => acc[b].pc # "idle"
    /\ acc' = [acc EXCEPT ![a] = IF PoolExists(p)
                                 THEN [IdleAcc EXCEPT !.pc = "create_trip", !.driver_id = d,
                                                      !.pool_id = p, !.pool = PoolObj(p, pools[p])]
                                 ELSE [IdleAcc EXCEPT !.pc = "done", !.pool_id = p, !.result = "None"]]
    /\ UNCHANGED <<dbVars, now, queue, req, swp, dsp, offers, hist, call>>

\* DriverConsumer.handle_pool_acceptance sends driver_accept_pool.delay(driver_id,
\* pool_id) for whatever pool id the driver names.  The task reads
\* Driver.objects.get(id=driver_id), then Pool.objects.get(id=pool_id,
\* status='filled'); DoesNotExist is caught and the task returns None.  No
\* modelled operation changes a column of the driver row other than
\* is_available, which the task overwrites, so the copy of the row is not kept.
accept_get(a, d, p) ==
    /\ acc[a].pc = "idle"
    /\ \A b \in AcceptIds : b < a => acc[b].pc # "idle"
    /\ acc' = [acc EXCEPT ![a] = IF PoolExists(p) /\ pools[p].status = "filled"
                                 THEN [IdleAcc EXCEPT !.pc = "create_trip", !.driver_id = d,
                                                      !.pool_id = p, !.pool = PoolObj(p, pools[p])]
                                 ELSE [IdleAcc EXCEPT !.pc = "done", !.pool_id = p, !.result = "None"]]
    /\ UNCHANGED <<dbVars, now, queue, req, swp, dsp, offers, hist, call>>

\* accept_create_trip on a Trip table whose pool column is not unique
accept_create_trip_not_unique(a) ==
    /\ acc[a].pc = "create_trip"
    /\ acc' = [acc EXCEPT ![a].pc = "save_pool"]
    /\ trips' = Append(trips, [pool |-> acc[a].pool_id, driver |-> acc[a].driver_id])
    /\ UNCHANGED <<pools, members, rides, drivers, now, queue, req, swp, dsp, offers, hist, call>>

\* Trip.objects.create(pool=pool, driver=driver).  Trip.pool is a
\* OneToOneField: a second row for the pool raises IntegrityError, which the
\* task does not catch
accept_create_trip(a) ==
    /\ acc[a].pc = "create_trip"
    /\ IF \E i \in 1..Len(trips) : trips[i].pool = acc[a].pool_id
       THEN /\ acc' = [acc EXCEPT ![a] = [IdleAcc EXCEPT !.pc = "done", !.pool_id = acc[a].pool_id,
                                                          !.result = "IntegrityError"]]
            /\ trips' = trips
       ELSE /\ acc' = [acc EXCEPT ![a].pc = "save_pool"]
            /\ trips' = Append(trips, [pool |-> acc[a].pool_id, driver |-> acc[a].driver_id])
    /\ UNCHANGED <<pools, members, rides, drivers, now, queue, req, swp, dsp, offers, hist, call>>

\* pool.status = 'driver_assigned'; pool.save()
accept_save_pool(a) ==
    /\ acc[a].pc = "save_pool"
    /\ LET obj == [acc[a].pool EXCEPT !.status = "driver_assigned"]
       IN /\ pools' = SavePool(pools, obj)
          /\ acc' = [acc EXCEPT ![a].pc = "save_driver", ![a].pool = obj]
    /\ UNCHANGED <<members, rides, drivers, trips, now, queue, req, swp, dsp, offers, hist, call>>

\* driver.is_available = False; driver.save(); the two notifications;
\* return trip.id
accept_save_driver(a) ==
    /\ acc[a].pc = "save_driver"
    /\ drivers' = [drivers EXCEPT ![acc[a].driver_id].is_available = FALSE]
    /\ acc' = [acc EXCEPT ![a] = [IdleAcc EXCEPT !.pc = "done", !.pool_id = acc[a].pool_id,
                                                  !.result = "trip"]]
    /\ UNCHANGED <<pools, members, rides, trips, now, queue, req, swp, dsp, offers, hist, call>>

\* DriverViewSet.update_availability with is_available in the request data
\* and no coordinates
update_availability(d, is_available) ==
    /\ hist.manual < MaxManual
    /\ drivers[d].is_available # is_available
    /\ drivers' = [drivers EXCEPT ![d].is_available = is_available]
    /\ hist' = [hist EXCEPT !.manual = @ + 1]
    /\ UNCHANGED <<pools, members, rides, trips, now, queue, req, swp, dsp, acc, offers, call>>

-----------------------------------------------------------------------------
(* Specification of the submission side: concurrent request_ride calls,     *)
(* cancel_ride, the expiry sweep and the clock.                              *)

NoRide == [status |-> "none", kind |-> "A"]

\* Driver rows: is_available defaults to False, max_capacity to 4
DriverRow(avail, cap, lat, lng) ==
    [is_available |-> avail, max_capacity |-> cap, lat |-> lat, lng |-> lng]

InitRest ==
    /\ trips = <<>>
    /\ now = 0
    /\ queue = [assign |-> ZeroCount, wait |-> ZeroCount, expired |-> ZeroCount]
    /\ req = [r \in NewRideIds |-> IdleReq]
    /\ swp = IdleSwp
    /\ dsp = [p \in PoolIds |-> IdleDsp]
    /\ acc = [a \in AcceptIds |-> IdleAcc]
    /\ offers = {}
    /\ hist = [assign_enqueued |-> ZeroCount, expired_enqueued |-> ZeroCount,
               cancel_errors |-> 0, cancel_terminal |-> FALSE, manual |-> 0]
    /\ call = NoCall

\* The database is empty, or holds one open pool created at time 0 by request 0
\* whose max_riders an administrator has set.
Init ==
    /\ \/ /\ pools = <<>>
          /\ members = <<>>
          /\ rides = [r \in RideIds |-> NoRide]
       \/ /\ \E m \in InitMaxRiders :
                pools = <<[NewPoolRow(0) EXCEPT !.max_riders = m,
                                                !.estimated_fare = IF Truthy(FareOf(0)) THEN FareOf(0) ELSE NULL]>>
          /\ members = <<[pool |-> 1, ride_request |-> 0, pickup_order |-> 1, dropoff_order |-> 1]>>
          /\ rides = [r \in RideIds |-> IF r = 0 THEN [status |-> "pending", kind |-> KindOf(0)] ELSE NoRide]
    /\ drivers = [d \in DriverIds |-> DriverRow(FALSE, 4, NULL, NULL)]
    /\ InitRest

Next ==
    \/ \E r \in NewRideIds : request_ride_save(r)
    \/ \E r \in NewRideIds : request_ride_find(r)
    \/ \E r \in NewRideIds : add_to_pool_delete(r)
    \/ \E r \in NewRideIds : add_to_pool_create(r)
    \/ \E r \in NewRideIds : add_to_pool_fill(r)
    \/ \E r \in NewRideIds : request_ride_joined(r)
    \/ \E r \in NewRideIds : create_pool_pool(r)
    \/ \E r \in NewRideIds : create_pool_member(r)
    \/ \E r \in NewRideIds : request_ride_created(r)
    \/ \E r \in RideIds : cancel_ride(r)
    \/ close_expired_pools_query
    \/ close_expired_pools_save
    \/ Tick

Spec == Init /\ [][Next]_vars

-----------------------------------------------------------------------------
(* Specification of the driver side: dispatch, timeout and accept tasks,    *)
(* availability updates, with cancel_ride, the expiry sweep and the clock.  *)

\* registered drivers: available, with a known position 2.2 km, 1.1 km, ...
\* north of the pickup of request kind A
InitDriver(d) ==
    CASE d = 1 -> DriverRow(TRUE, 4, 10020000, 10000000)
      [] d = 2 -> DriverRow(TRUE, 4, 10010000, 10000000)
      [] OTHER -> DriverRow(TRUE, 4, 10030000, 10000000)

Member(p, r, o) == [pool |-> p, ride_request |-> r, pickup_order |-> o, dropoff_order |-> o]

FilledRow(m, fare) ==
    [status |-> "filled", max_riders |-> m, max_wait_time |-> default_max_wait_time,
     created_at |-> 0, closed_at |-> 0,
     estimated_fare |-> fare]

\* The database after requests 0, 1, 2 were submitted one after the other at
\* time 0 to a pool whose max_riders is 1 (request 1 filled pool 1, request 2
\* opened pool 2) or 2 (request 2 filled pool 1); the dispatch enqueued by the
\* fill is pending.
InitDispatch ==
    /\ \/ /\ pools = <<FilledRow(1, FareOf(0) + FareOf(1)), NewPoolRow(0)>>
          /\ members = <<Member(1, 0, 1), Member(1, 1, 2), Member(2, 2, 1)>>
       \/ /\ pools = <<FilledRow(2, FareOf(0) + FareOf(1))>>
          /\ members = <<Member(1, 0, 1), Member(1, 1, 2), Member(1, 2, 3)>>
    /\ rides = [r \in RideIds |-> IF r <= 2 THEN [status |-> "pending", kind |-> KindOf(r)] ELSE NoRide]
    /\ drivers = [d \in DriverIds |-> InitDriver(d)]
    /\ trips = <<>>
    /\ now = 0
    /\ queue = [assign |-> [ZeroCount EXCEPT ![1] = 1], wait |-> ZeroCount, expired |-> ZeroCount]
    /\ req = [r \in NewRideIds |-> IdleReq]
    /\ swp = IdleSwp
    /\ dsp = [p \in PoolIds |-> IdleDsp]
    /\ acc = [a \in AcceptIds |-> IdleAcc]
    /\ offers = {}
    /\ hist = [assign_enqueued |-> [ZeroCount EXCEPT ![1] = 1], expired_enqueued |-> ZeroCount,
               cancel_errors |-> 0, cancel_terminal |-> FALSE, manual |-> 0]
    /\ call = NoCall

NextDispatch ==
    \/ \E p \in PoolIds : dispatch_get(p)
    \/ \E p \in PoolIds : dispatch_centroid(p)
    \/ \E p \in PoolIds : dispatch_drivers(p)
    \/ \E p \in PoolIds : dispatch_notify(p)
    \/ \E p \in PoolIds : wait_for_driver_acceptance(p)
    \/ \E p \in PoolIds : manual_dispatch(p)
    \/ \E a \in AcceptIds, d \in DriverIds, p \in PoolIds : accept_get(a, d, p)
    \/ \E a \in AcceptIds : accept_create_trip(a)
    \/ \E a \in AcceptIds : accept_save_pool(a)
    \/ \E a \in AcceptIds : accept_save_driver(a)
    \/ \E d \in DriverIds, b \in BOOLEAN : update_availability(d, b)
    \/ \E r \in RideIds : cancel_ride(r)
    \/ close_expired_pools_query
    \/ close_expired_pools_save
    \/ Tick

SpecDispatch == InitDispatch /\ [][NextDispatch]_vars

-----------------------------------------------------------------------------
(* Specification of the dispatch alone: the dispatch task of a filled pool, *)
(* its timeout task, re-dispatches by hand and availability updates, for    *)
(* drivers in any state.                                                     *)

\* driver rows: available 2.2 km from the pickups; unavailable; available
\* 16.7 km away; available without a reported position; available with room
\* for one rider
DriverProfiles ==
    {DriverRow(TRUE, 4, 10020000, 10000000),
     DriverRow(FALSE, 4, 10010000, 10000000),
     DriverRow(TRUE, 4, 10150000, 10000000),
     DriverRow(TRUE, 4, NULL, NULL),
     DriverRow(TRUE, 1, 10010000, 10000000)}

\* pool 1 was filled by requests 0, 1 and 2 and its dispatch is pending
InitRedispatch ==
    /\ pools = <<FilledRow(2, FareOf(0) + FareOf(1))>>
    /\ members = <<Member(1, 0, 1), Member(1, 1, 2), Member(1, 2, 3)>>
    /\ rides = [r \in RideIds |-> IF r <= 2 THEN [status |-> "pending", kind |-> KindOf(r)] ELSE NoRide]
    /\ drivers \in [DriverIds -> DriverProfiles]
    /\ trips = <<>>
    /\ now = 0
    /\ queue = [assign |-> [ZeroCount EXCEPT ![1] = 1], wait |-> ZeroCount, expired |-> ZeroCount]
    /\ req = [r \in NewRideIds |-> IdleReq]
    /\ swp = IdleSwp
    /\ dsp = [p \in PoolIds |-> IdleDsp]
    /\ acc = [a \in AcceptIds |-> IdleAcc]
    /\ offers = {}
    /\ hist = [assign_enqueued |-> [ZeroCount EXCEPT ![1] = 1], expired_enqueued |-> ZeroCount,
               cancel_errors |-> 0, cancel_terminal |-> FALSE, manual |-> 0]
    /\ call = NoCall

NextRedispatch ==
    \/ \E p \in PoolIds : dispatch_get(p)
    \/ \E p \in PoolIds : dispatch_centroid(p)
    \/ \E p \in PoolIds : dispatch_drivers(p)
    \/ \E p \in PoolIds : dispatch_notify(p)
    \/ \E p \in PoolIds : wait_for_driver_acceptance(p)
    \/ \E p \in PoolIds : manual_dispatch(p)
    \/ \E d \in DriverIds, b \in BOOLEAN : update_availability(d, b)

SpecRedispatch == InitRedispatch /\ [][NextRedispatch]_vars

-----------------------------------------------------------------------------
(* Specification of the matcher: new requests are submitted at minute 10 to *)
(* a database left by requests 0 and 1, with the sweep, cancel_ride for     *)
(* request 0 and the clock.                                                  *)

\* coordinates request 0 was submitted with
MatchKinds == {"A", "B", "D", "F"}

\* max_wait_time values an administrator has given to pool 1
InitMaxWaitTimes == {10, 20}

\* status and created_at of a pool with one member at minute 10: open and
\* created at minute 0 or 10, or expired by a sweep at minute 10
InitAges == {<<"open", 0>>, <<"open", 10>>, <<"expired", 0>>}

PoolRow(st, m, w, c, closed, fare) ==
    [status |-> st, max_riders |-> m, max_wait_time |-> w, created_at |-> c,
     closed_at |-> closed, estimated_fare |-> fare]

\* the locals of a finished request_ride call that placed its request in pool p
DoneReq(p, result, cands) ==
    [IdleReq EXCEPT !.pc = "done", !.result = result, !.cands = cands, !.pool = [NoObj EXCEPT !.id = p]]

\* request 0 and its pool: the coordinates of the request with the status,
\* created_at and max_wait_time of the pool.  Every kind with a pool opened at
\* minute 10 with the default max_wait_time, and the kind of request 1 with
\* every age and max_wait_time
InitPool1 ==
    {<<k, <<"open", 10>>, default_max_wait_time>> : k \in MatchKinds}
      \cup {<<KindOf(1), a, w>> : a \in InitAges, w \in InitMaxWaitTimes}

InitRides(k0) ==
    [r \in RideIds |-> IF r = 0 THEN [status |-> "pending", kind |-> k0]
                       ELSE IF r = 1 THEN [status |-> "pending", kind |-> KindOf(1)]
                       ELSE NoRide]

InitMatch ==
    /\ now = 10
    /\ \/ \* requests 0 and 1 each opened a pool
          /\ \E p1 \in InitPool1, a2 \in InitAges :
                /\ rides = InitRides(p1[1])
                /\ pools = <<PoolRow(p1[2][1], default_max_riders, p1[3], p1[2][2], NULL, FareOf(0)),
                             PoolRow(a2[1], default_max_riders, default_max_wait_time, a2[2], NULL, FareOf(1))>>
          /\ members = <<Member(1, 0, 1), Member(2, 1, 1)>>
          /\ req = [r \in NewRideIds |-> IF r = 1 THEN DoneReq(2, "new_pool_created", <<>>) ELSE IdleReq]
       \/ \* request 1 joined the pool of request 0, which stayed open or was filled
          /\ rides = InitRides(KindOf(1))
          /\ \E c \in {0, 10} :
                \/ pools = <<PoolRow("open", default_max_riders, default_max_wait_time, c, NULL,
                                     FareOf(0) + FareOf(1))>>
                \/ pools = <<PoolRow("filled", 1, default_max_wait_time, c, c, FareOf(0) + FareOf(1))>>
          /\ members = <<Member(1, 0, 1), Member(1, 1, 2)>>
          /\ req = [r \in NewRideIds |-> IF r = 1 THEN DoneReq(1, "joined_pool", <<1>>) ELSE IdleReq]
       \/ \* request 1 is joining the pool of request 0 and has run its DELETE
          /\ rides = InitRides(KindOf(1))
          /\ \E c \in {0, 10}, m \in {1, default_max_riders} :
                /\ pools = <<PoolRow("open", m, default_max_wait_time, c, NULL, FareOf(0))>>
                /\ req = [r \in NewRideIds |->
                            IF r = 1 THEN [IdleReq EXCEPT !.pc = "recreate", !.cands = <<1>>,
                                                          !.pool = PoolObj(1, pools[1]),
                                                          !.cache = <<0>>, !.k = 1]
                            ELSE IdleReq]
          /\ members = <<>>
    /\ drivers = [d \in DriverIds |-> DriverRow(FALSE, 4, NULL, NULL)]
    /\ trips = <<>>
    /\ queue = [assign |-> ZeroCount, wait |-> ZeroCount, expired |-> ZeroCount]
    /\ swp = IdleSwp
    /\ dsp = [p \in PoolIds |-> IdleDsp]
    /\ acc = [a \in AcceptIds |-> IdleAcc]
    /\ offers = {}
    /\ hist = [assign_enqueued |-> ZeroCount, expired_enqueued |-> ZeroCount,
               cancel_errors |-> 0, cancel_terminal |-> FALSE, manual |-> 0]
    /\ call = NoCall

\* the actions of Next, with cancel_ride called for request 0 only
NextMatch ==
    \/ \E r \in NewRideIds : request_ride_save(r)
    \/ \E r \in NewRideIds : request_ride_find(r)
    \/ \E r \in NewRideIds : add_to_pool_delete(r)
    \/ \E r \in NewRideIds : add_to_pool_create(r)
    \/ \E r \in NewRideIds : add_to_pool_fill(r)
    \/ \E r \in NewRideIds : request_ride_joined(r)
    \/ \E r \in NewRideIds : create_pool_pool(r)
    \/ \E r \in NewRideIds : create_pool_member(r)
    \/ \E r \in NewRideIds : request_ride_created(r)
    \/ cancel_ride(0)
    \/ close_expired_pools_query
    \/ close_expired_pools_save
    \/ Tick

SpecMatch == InitMatch /\ [][NextMatch]_vars

-----------------------------------------------------------------------------
(* Specification of the tasks of one pool in any stored state: dispatch and *)
(* timeout tasks are delivered for pool 1 whatever its status, also when it *)
(* was deleted, and for pool ids that were never given out.                  *)

\* the statuses the code stores in a Pool row or tests for
PoolStatuses == {"open", "filled", "driver_assigned", "expired", "cancelled"}

\* driver rows for a pool next to the prime meridian: available 1.6 km away
\* with longitude 0; available 2.2 km away; unavailable
MeridianProfiles ==
    {DriverRow(TRUE, 4, 10010000, 0),
     DriverRow(TRUE, 4, 10020000, 10000),
     DriverRow(FALSE, 4, 10010000, 10000)}

\* Requests 0, 1, 2 were pooled in pool 1, which has any status or was
\* deleted with its memberships; one dispatch task and two timeout tasks of
\* the pool are pending.
InitTasks ==
    /\ \E k \in {"A", "G"} :
          /\ rides = [r \in RideIds |-> IF r <= 2 THEN [status |-> "pending", kind |-> k] ELSE NoRide]
          /\ drivers \in [DriverIds -> IF k = "A" THEN DriverProfiles ELSE MeridianProfiles]
    /\ \/ /\ pools = <<>>
          /\ members = <<>>
       \/ /\ \E st \in PoolStatuses :
                pools = <<PoolRow(st, 2, default_max_wait_time, 0,
                                  IF st = "open" THEN NULL ELSE 0, FareOf(0) + FareOf(1))>>
          /\ members = <<Member(1, 0, 1), Member(1, 1, 2), Member(1, 2, 3)>>
    /\ trips = <<>>
    /\ now = 0
    /\ queue = [assign |-> [ZeroCount EXCEPT ![1] = 1], wait |-> [ZeroCount EXCEPT ![1] = 2],
                expired |-> ZeroCount]
    /\ req = [r \in NewRideIds |-> IdleReq]
    /\ swp = IdleSwp
    /\ dsp = [p \in PoolIds |-> IdleDsp]
    /\ acc = [a \in AcceptIds |-> IdleAcc]
    /\ offers = {}
    /\ hist = [assign_enqueued |-> [ZeroCount EXCEPT ![1] = 1], expired_enqueued |-> ZeroCount,
               cancel_errors |-> 0, cancel_terminal |-> FALSE, manual |-> 0]
    /\ call = NoCall

SpecTasks == InitTasks /\ [][NextRedispatch]_vars

-----------------------------------------------------------------------------
(* Specification of the pooling scenario: request 0 (kind A) opened pool 1, *)
(* request 1 was saved with the coordinates of kind B and is about to be    *)
(* matched, further requests of kind A are submitted.                        *)

\* max_riders values an administrator has given to pool 1
PoolingMaxRiders == {1, 2, default_max_riders}

InitPooling ==
    /\ \E m \in PoolingMaxRiders :
          pools = <<PoolRow("open", m, default_max_wait_time, 0, NULL, FareOf(0))>>
    /\ members = <<Member(1, 0, 1)>>
    /\ rides = [r \in RideIds |-> IF r = 0 THEN [status |-> "pending", kind |-> "A"]
                                  ELSE IF r = 1 THEN [status |-> "pending", kind |-> "B"]
                                  ELSE NoRide]
    /\ req = [r \in NewRideIds |-> IF r = 1 THEN [IdleReq EXCEPT !.pc = "find"] ELSE IdleReq]
    /\ drivers = [d \in DriverIds |-> DriverRow(FALSE, 4, NULL, NULL)]
    /\ trips = <<>>
    /\ now = 0
    /\ queue = [assign |-> ZeroCount, wait |-> ZeroCount, expired |-> ZeroCount]
    /\ swp = IdleSwp
    /\ dsp = [p \in PoolIds |-> IdleDsp]
    /\ acc = [a \in AcceptIds |-> IdleAcc]
    /\ offers = {}
    /\ hist = [assign_enqueued |-> ZeroCount, expired_enqueued |-> ZeroCount,
               cancel_errors |-> 0, cancel_terminal |-> FALSE, manual |-> 0]
    /\ call = NoCall

\* the request_ride actions of Next
NextPooling ==
    \/ \E r \in NewRideIds : request_ride_save(r)
    \/ \E r \in NewRideIds : request_ride_find(r)
    \/ \E r \in NewRideIds : add_to_pool_delete(r)
    \/ \E r \in NewRideIds : add_to_pool_create(r)
    \/ \E r \in NewRideIds : add_to_pool_fill(r)
    \/ \E r \in NewRideIds : request_ride_joined(r)
    \/ \E r \in NewRideIds : create_pool_pool(r)
    \/ \E r \in NewRideIds : create_pool_member(r)
    \/ \E r \in NewRideIds : request_ride_created(r)

SpecPooling == InitPooling /\ [][NextPooling]_vars

-----------------------------------------------------------------------------
(* Specification of the service functions: one call of                      *)
(* RouteOptimizer.optimize_route on a list of request ids, or of            *)
(* _estimate_pool_route_distance or _is_route_compatible on a list of       *)
(* requests, for every list up to MaxLen entries.                            *)

\* coordinates of the requests a function is called with
CallKinds == {"A", "B", "C", "D", "F", "S"}

SeqsUpTo(S, n) == UNION {[1..m -> S] : m \in 0..n}

\* the requests of a call: the coordinates of each entry of call.kinds
CallRequests(kinds) == [i \in 1..Len(kinds) |-> Coord(kinds[i])]

\* the pool members and the new request of a call of _is_route_compatible:
\* the last entry of call.kinds is the request
CallPool(kinds) == CallRequests(SubSeq(kinds, 1, Len(kinds) - 1))
CallNew(kinds) == Coord(kinds[Len(kinds)])

InitCalls ==
    /\ call \in {[NoCall EXCEPT !.fn = "optimize_route", !.pc = "call", !.ids = s]
                    : s \in SeqsUpTo(RideIds, MaxLen)}
              \cup {[NoCall EXCEPT !.fn = "estimate_pool_route_distance", !.pc = "call", !.kinds = k]
                    : k \in SeqsUpTo(CallKinds, MaxLen)}
              \cup {[NoCall EXCEPT !.fn = "is_route_compatible", !.pc = "call", !.kinds = k]
                    : k \in SeqsUpTo(CallKinds, MaxLen) \ {<<>>}}
    /\ pools = <<>>
    /\ members = <<>>
    /\ rides = [r \in RideIds |-> NoRide]
    /\ drivers = [d \in DriverIds |-> DriverRow(FALSE, 4, NULL, NULL)]
    /\ trips = <<>>
    /\ now = 0
    /\ queue = [assign |-> ZeroCount, wait |-> ZeroCount, expired |-> ZeroCount]
    /\ req = [r \in NewRideIds |-> IdleReq]
    /\ swp = IdleSwp
    /\ dsp = [p \in PoolIds |-> IdleDsp]
    /\ acc = [a \in AcceptIds |-> IdleAcc]
    /\ offers = {}
    /\ hist = [assign_enqueued |-> ZeroCount, expired_enqueued |-> ZeroCount,
               cancel_errors |-> 0, cancel_terminal |-> FALSE, manual |-> 0]

call_optimize_route ==
    /\ call.fn = "optimize_route"
    /\ call.pc = "call"
    /\ call' = [call EXCEPT !.pc = "return", !.route = optimize_route(call.ids)]
    /\ UNCHANGED <<dbVars, now, queue, req, swp, dsp, acc, offers, hist>>

call_estimate_pool_route_distance ==
    /\ call.fn = "estimate_pool_route_distance"
    /\ call.pc = "call"
    /\ call' = [call EXCEPT !.pc = "return",
                            !.distance = estimate_pool_route_distance(CallRequests(call.kinds))]
    /\ UNCHANGED <<dbVars, now, queue, req, swp, dsp, acc, offers, hist>>

call_is_route_compatible ==
    /\ call.fn = "is_route_compatible"
    /\ call.pc = "call"
    /\ call' = [call EXCEPT !.pc = "return",
                            !.ok = is_route_compatible(CallNew(call.kinds), CallPool(call.kinds))]
    /\ UNCHANGED <<dbVars, now, queue, req, swp, dsp, acc, offers, hist>>

NextCalls ==
    \/ call_optimize_route
    \/ call_estimate_pool_route_distance
    \/ call_is_route_compatible

SpecCalls == InitCalls /\ [][NextCalls]_vars

-----------------------------------------------------------------------------
(* Specification of the accepts: two filled pools whose dispatches are      *)
(* pending, drivers in any state who send accept_pool for any pool id and   *)
(* switch their availability.                                                *)

\* Requests 0 and 1 filled pool 1 and requests 2 and 3 filled pool 2 (both
\* with max_riders 1, so the second join of each filled it); the dispatch
\* enqueued by each fill is pending.
InitAccept ==
    /\ pools = <<FilledRow(1, FareOf(0) + FareOf(1)), FilledRow(1, FareOf(2) + FareOf(3))>>
    /\ members = <<Member(1, 0, 1), Member(1, 1, 2), Member(2, 2, 1), Member(2, 3, 2)>>
    /\ rides = [r \in RideIds \cup {3} |-> [status |-> "pending", kind |-> "A"]]
    /\ drivers \in [DriverIds -> DriverProfiles]
    /\ trips = <<>>
    /\ now = 0
    /\ queue = [assign |-> [ZeroCount EXCEPT ![1] = 1, ![2] = 1], wait |-> ZeroCount,
                expired |-> ZeroCount]
    /\ req = [r \in NewRideIds |-> IdleReq]
    /\ swp = IdleSwp
    /\ dsp = [p \in PoolIds |-> IdleDsp]
    /\ acc = [a \in AcceptIds |-> IdleAcc]
    /\ offers = {}
    /\ hist = [assign_enqueued |-> [ZeroCount EXCEPT ![1] = 1, ![2] = 1], expired_enqueued |-> ZeroCount,
               cancel_errors |-> 0, cancel_terminal |-> FALSE, manual |-> 0]
    /\ call = NoCall

NextAccept ==
    \/ \E p \in PoolIds : dispatch_get(p)
    \/ \E p \in PoolIds : dispatch_centroid(p)
    \/ \E p \in PoolIds : dispatch_drivers(p)
    \/ \E p \in PoolIds : dispatch_notify(p)
    \/ \E a \in AcceptIds, d \in DriverIds, p \in PoolIds : accept_get(a, d, p)
    \/ \E a \in AcceptIds : accept_create_trip(a)
    \/ \E a \in AcceptIds : accept_save_pool(a)
    \/ \E a \in AcceptIds : accept_save_driver(a)
    \/ \E d \in DriverIds, b \in BOOLEAN : update_availability(d, b)

SpecAccept == InitAccept /\ [][NextAccept]_vars

-----------------------------------------------------------------------------
(* Specification of sequential operations: a request_ride, cancel_ride,     *)
(* driver_accept_pool or close_expired_pools call starts only when no other *)
(* call is between two of its statements.                                    *)

\* some call has started and not returned
Busy ==
    \/ \E r \in NewRideIds : req[r].pc \notin {"idle", "done"}
    \/ swp.pc # "idle"
    \/ \E a \in AcceptIds : acc[a].pc \notin {"idle", "done"}

sequential_request_ride(r) == ~Busy /\ request_ride_save(r)

sequential_cancel_ride(r) == ~Busy /\ cancel_ride(r)

sequential_close_expired_pools == ~Busy /\ close_expired_pools_query

sequential_driver_accept_pool(a, d, p) == ~Busy /\ accept_get(a, d, p)

\* max_riders values of pool 1: the default, or 2 set by an administrator
\* while the pool had one member
SequentialMaxRiders == {2, default_max_riders}

\* The database is empty, or holds one open pool created at time 0 by request 0
InitSequential ==
    /\ \/ /\ pools = <<>>
          /\ members = <<>>
          /\ rides = [r \in RideIds |-> NoRide]
       \/ /\ \E m \in SequentialMaxRiders :
                pools = <<PoolRow("open", m, default_max_wait_time, 0, NULL,
                                  IF Truthy(FareOf(0)) THEN FareOf(0) ELSE NULL)>>
          /\ members = <<Member(1, 0, 1)>>
          /\ rides = [r \in RideIds |-> IF r = 0 THEN [status |-> "pending", kind |-> KindOf(0)] ELSE NoRide]
    /\ drivers = [d \in DriverIds |-> InitDriver(d)]
    /\ InitRest

NextSequential ==
    \/ \E r \in NewRideIds : sequential_request_ride(r)
    \/ \E r \in NewRideIds : request_ride_find(r)
    \/ \E r \in NewRideIds : add_to_pool_delete(r)
    \/ \E r \in NewRideIds : add_to_pool_create(r)
    \/ \E r \in NewRideIds : add_to_pool_fill(r)
    \/ \E r \in NewRideIds : request_ride_joined(r)
    \/ \E r \in NewRideIds : create_pool_pool(r)
    \/ \E r \in NewRideIds : create_pool_member(r)
    \/ \E r \in NewRideIds : request_ride_created(r)
    \/ \E r \in RideIds : sequential_cancel_ride(r)
    \/ sequential_close_expired_pools
    \/ close_expired_pools_save
    \/ \E a \in AcceptIds, d \in DriverIds, p \in PoolIds : sequential_driver_accept_pool(a, d, p)
    \/ \E a \in AcceptIds : accept_create_trip(a)
    \/ \E a \in AcceptIds : accept_save_pool(a)
    \/ \E a \in AcceptIds : accept_save_driver(a)
    \/ Tick

SpecSequential == InitSequential /\ [][NextSequential]_vars

-----------------------------------------------------------------------------
(* Specification with a scheduled sweep: Spec with close_expired_pools run  *)
(* again and again (a periodic task) and the clock advancing.               *)

SpecSweepFair ==
    /\ Spec
    /\ WF_vars(Tick)
    /\ WF_vars(close_expired_pools_query)
    /\ WF_vars(close_expired_pools_save)

-----------------------------------------------------------------------------
(* Specification with a running worker: SpecDispatch in which every         *)
(* enqueued task (dispatch, timeout, accept) runs to its end.  Drivers need *)
(* not accept and nobody need re-dispatch by hand.                           *)

SpecDispatchFair ==
    /\ SpecDispatch
    /\ WF_vars(\E p \in PoolIds : dispatch_get(p))
    /\ WF_vars(\E p \in PoolIds : dispatch_centroid(p))
    /\ WF_vars(\E p \in PoolIds : dispatch_drivers(p))
    /\ WF_vars(\E p \in PoolIds : dispatch_notify(p))
    /\ WF_vars(\E p \in PoolIds : wait_for_driver_acceptance(p))
    /\ WF_vars(\E a \in AcceptIds : accept_create_trip(a))
    /\ WF_vars(\E a \in AcceptIds : accept_save_pool(a))
    /\ WF_vars(\E a \in AcceptIds : accept_save_driver(a))

-----------------------------------------------------------------------------
(* Specification of the two PoolManager classes side by side: the same      *)
(* sequence of create_pool and add_to_pool calls, one call after the other, *)
(* is run by matching/services.py on the tables (pools, members,            *)
(* queue.assign) and by matching/pool_manager.py on a copy of the tables    *)
(* kept in call.db.  The requests exist already; the Pool instance given to *)
(* add_to_pool is loaded just before the call, by the matcher's query with  *)
(* prefetch_related('members__ride_request') or by a plain query.           *)

\* matching/services.py create_pool: Pool.objects.create() and the first
\* membership
services_create_pool(db, r, t) ==
    [db EXCEPT !.pools = Append(@, NewPoolRow(t)),
               !.members = Append(@, [pool |-> Len(db.pools) + 1, ride_request |-> r,
                                       pickup_order |-> 1, dropoff_order |-> 1])]

\* matching/services.py add_to_pool as one call: the rows are rewritten in the
\* optimized order; pool.members.count() is answered by the prefetched list
\* when the instance has one (the members before the join), by the database
\* otherwise; when it is >= max_riders the instance is saved as filled and the
\* dispatch enqueued
services_add_to_pool(db, r, p, prefetched, t) ==
    LET current_members == RideSeq(MembersOf(db.members, p))
        rows == add_to_pool_rows(p, current_members, r)
        count == IF prefetched THEN Len(current_members) ELSE Len(rows)
        obj == [PoolObj(p, db.pools[p]) EXCEPT !.status = "filled", !.closed_at = t]
        filled == count >= db.pools[p].max_riders
    IN [pools |-> IF filled THEN SavePool(db.pools, obj) ELSE db.pools,
        members |-> DeleteMembers(db.members, p) \o rows,
        assign |-> IF filled THEN [db.assign EXCEPT ![p] = @ + 1] ELSE db.assign]

\* matching/pool_manager.py create_pool
pool_manager_create_pool(db, r, t) ==
    [db EXCEPT !.pools = Append(@, NewPoolRow(t)),
               !.members = Append(@, [pool |-> Len(db.pools) + 1, ride_request |-> r,
                                       pickup_order |-> 1, dropoff_order |-> 1])]

\* matching/pool_manager.py _update_pool_members_order: one row per distinct
\* request of the sequence, the orders read from the two dictionaries
pool_manager_memberships_to_create(p, optimized_route) ==
    LET u == Dedupe([i \in 1..Len(optimized_route.sequence) |-> optimized_route.sequence[i][1]], {})
    IN [i \in 1..Len(u) |->
          [pool |-> p, ride_request |-> u[i],
           pickup_order |-> optimized_route.pickup_orders[u[i]],
           dropoff_order |-> optimized_route.dropoff_orders[u[i]]]]

\* matching/pool_manager.py add_to_pool as one call: the rows are rewritten,
\* notify_rider_joined runs inside try / except Exception, refresh_from_db
\* reloads the instance and drops its prefetched list, so pool.members.count()
\* is the count of the database after the join; when it is >= max_riders the
\* instance is saved as filled, notify_pool_filled runs inside try / except
\* and the dispatch is enqueued.  sent counts the notifications delivered.
pool_manager_add_to_pool(db, r, p, prefetched, notify_fails, t) ==
    LET current_members == RideSeq(MembersOf(db.members, p))
        rows == pool_manager_memberships_to_create(p, optimize_route(Append(current_members, r)))
        count == Len(rows)
        obj == [PoolObj(p, db.pools[p]) EXCEPT !.status = "filled", !.closed_at = t]
        filled == count >= db.pools[p].max_riders
    IN [pools |-> IF filled THEN SavePool(db.pools, obj) ELSE db.pools,
        members |-> DeleteMembers(db.members, p) \o rows,
        assign |-> IF filled THEN [db.assign EXCEPT ![p] = @ + 1] ELSE db.assign,
        sent |-> IF notify_fails THEN 0 ELSE IF filled THEN 2 ELSE 1]

\* the tables of matching/services.py
StoredState == [pools |-> pools, members |-> members, assign |-> queue.assign]

\* both classes run create_pool(ride_request)
managers_create_pool(r) ==
    /\ call.n < MaxCalls
    /\ Len(pools) < MaxRides + 1
    /\ LET a == services_create_pool(StoredState, r, now)
       IN /\ pools' = a.pools
          /\ members' = a.members
    /\ call' = [call EXCEPT !.fn = "create_pool", !.n = @ + 1, !.prefetched = FALSE,
                            !.db = pool_manager_create_pool(call.db, r, now)]
    /\ UNCHANGED <<rides, drivers, trips, now, queue, req, swp, dsp, acc, offers, hist>>

\* both classes run add_to_pool(ride_request, pool)
managers_add_to_pool(r, p, prefetched, notify_fails) ==
    /\ call.n < MaxCalls
    /\ PoolExists(p)
    /\ LET a == services_add_to_pool(StoredState, r, p, prefetched, now)
           b == pool_manager_add_to_pool(call.db, r, p, prefetched, notify_fails, now)
       IN /\ pools' = a.pools
          /\ members' = a.members
          /\ queue' = [queue EXCEPT !.assign = a.assign]
          /\ hist' = [hist EXCEPT !.assign_enqueued = a.assign]
          /\ call' = [call EXCEPT !.fn = "add_to_pool", !.n = @ + 1, !.prefetched = prefetched,
                                  !.db = [pools |-> b.pools, members |-> b.members, assign |-> b.assign],
                                  !.sent = @ + b.sent, !.failed = @ \/ notify_fails]
    /\ UNCHANGED <<rides, drivers, trips, now, req, swp, dsp, acc, offers>>

\* Requests 0 .. MaxRides are saved; the tables are empty or hold pool 1,
\* opened by request 0, whose max_riders an administrator may have set; both
\* classes start from the same tables.
InitManagers ==
    /\ \/ /\ pools = <<>>
          /\ members = <<>>
       \/ /\ \E m \in PoolingMaxRiders :
                pools = <<PoolRow("open", m, default_max_wait_time, 0, NULL, NULL)>>
          /\ members = <<Member(1, 0, 1)>>
    /\ rides = [r \in RideIds |-> [status |-> "pending", kind |-> KindOf(r)]]
    /\ drivers = [d \in DriverIds |-> DriverRow(FALSE, 4, NULL, NULL)]
    /\ trips = <<>>
    /\ now \in {0, TickMinutes}
    /\ queue = [assign |-> ZeroCount, wait |-> ZeroCount, expired |-> ZeroCount]
    /\ req = [r \in NewRideIds |-> IdleReq]
    /\ swp = IdleSwp
    /\ dsp = [p \in PoolIds |-> IdleDsp]
    /\ acc = [a \in AcceptIds |-> IdleAcc]
    /\ offers = {}
    /\ hist = [assign_enqueued |-> ZeroCount, expired_enqueued |-> ZeroCount,
               cancel_errors |-> 0, cancel_terminal |-> FALSE, manual |-> 0]
    /\ call = [fn |-> "none", n |-> 0, prefetched |-> FALSE, sent |-> 0, failed |-> FALSE,
               db |-> [pools |-> pools, members |-> members, assign |-> ZeroCount]]

NextManagers ==
    \/ \E r \in RideIds : managers_create_pool(r)
    \/ \E r \in RideIds, p \in PoolIds, prefetched \in BOOLEAN, notify_fails \in BOOLEAN :
          managers_add_to_pool(r, p, prefetched, notify_fails)

SpecManagers == InitManagers /\ [][NextManagers]_vars

-----------------------------------------------------------------------------
(* Properties *)

MemberCount(p) == Len(MembersOf(members, p))

TripsOf(p) == {i \in 1..Len(trips) : trips[i].pool = p}

\* the request_ride call of r is the one taking a step
ReqStep(r) == req'[r] # req[r]

\* the accept task a is the one taking a step
AccStep(a) == acc'[a] # acc[a]

\* C1: in every reachable state no pool has more memberships than its
\* max_riders, under any interleaving of concurrent request_ride calls.
C1_PoolNeverOverfull ==
    \A p \in 1..Len(pools) : MemberCount(p) <= pools[p].max_riders

\* C2: every driver_accept_pool task ends by returning a Trip id or None,
\* never by an exception, and at most one task per pool returns a Trip id.
C2_AcceptsEndCleanly ==
    /\ \A a \in AcceptIds : acc[a].pc = "done" => acc[a].result \in {"trip", "None"}
    /\ \A a, b \in AcceptIds :
          (acc[a].result = "trip" /\ acc[b].result = "trip" /\ acc[a].pool_id = acc[b].pool_id) => a = b

\* C3: each pool has at most one Trip in every state and a Trip, once
\* created, stays: no step removes or replaces a Trip, so a pool gets a Trip
\* at most once, whatever the interleaving of accept, timeout, cancel and sweep.
C3_OneTripPerPool ==
    [][/\ Len(trips') >= Len(trips)
       /\ SubSeq(trips', 1, Len(trips)) = trips
       /\ \A p \in PoolIds : Cardinality({i \in 1..Len(trips') : trips'[i].pool = p}) <= 1]_vars

\* a Trip exists for a pool and a later Trip.objects.create for the same pool
\* was refused
C3_Witness ==
    /\ Len(trips) = 1
    /\ \E a \in AcceptIds : acc[a].result = "IntegrityError" /\ acc[a].pool_id = trips[1].pool

\* C4: the membership of a joining request is inserted only while the chosen
\* pool is open and holds fewer than max_riders memberships.
C4_JoinRevalidates ==
    [][\A r \in NewRideIds :
          (/\ req[r].pc = "recreate"
           /\ ReqStep(r)
           /\ members'[Len(members')].ride_request = r)
          => (/\ pools[req[r].pool.id].status = "open"
              /\ MemberCount(req[r].pool.id) < pools[req[r].pool.id].max_riders)]_vars

\* C5: in no reachable state does a Trip exist for a pool whose status is
\* still filled, or (before any availability update) for a driver whose
\* is_available is still true.
C5_ConfirmIsAtomic ==
    \A i \in 1..Len(trips) :
        /\ pools[trips[i].pool].status # "filled"
        /\ hist.manual = 0 => ~drivers[trips[i].driver].is_available

\* C6: an accept for a pool that is missing or not in status filled returns
\* None and changes no row: no Trip, same pool status, same is_available.
C6_RejectedAcceptChangesNothing ==
    [][\A a \in AcceptIds :
          (/\ acc[a].pc = "idle"
           /\ AccStep(a)
           /\ ~(PoolExists(acc'[a].pool_id) /\ pools[acc'[a].pool_id].status = "filled"))
          => (/\ acc'[a].pc = "done"
              /\ acc'[a].result = "None"
              /\ UNCHANGED dbVars)]_vars

\* a pool has been assigned and a second accept for it has returned None
C6_Witness ==
    \E a \in AcceptIds :
        /\ acc[a].result = "None"
        /\ PoolExists(acc[a].pool_id)
        /\ pools[acc[a].pool_id].status = "driver_assigned"
        /\ TripsOf(acc[a].pool_id) # {}

\* C7: a Trip is created only for a driver whose is_available is true at
\* that moment.
C7_AcceptRequiresAvailable ==
    [][\A a \in AcceptIds :
          (acc[a].pc = "create_trip" /\ AccStep(a) /\ Len(trips') > Len(trips))
          => drivers[acc[a].driver_id].is_available]_vars

\* C8: every pool_assignment event went to a driver whose is_available was
\* true when the dispatch ran its drivers query.
C8_OffersOnlyToAvailable ==
    \A o \in offers : o.available_at_query

\* an offer was sent to a driver who is no longer available
C8_Witness ==
    \E o \in offers : ~drivers[o.driver].is_available

StatusRank(st) ==
    CASE st = "open" -> 0
      [] st = "filled" -> 1
      [] st = "driver_assigned" -> 2
      [] st = "active" -> 3
      [] st = "completed" -> 4
      [] OTHER -> 5

\* C9: the stored status of a pool never goes back: a step leaves it, moves
\* it forward along open, filled, driver_assigned, active, completed, expires
\* an open pool, or cancels the pool.
C9_StatusForwardOnly ==
    [][\A p \in 1..Len(pools) :
          \/ pools'[p].status = pools[p].status
          \/ pools'[p].status = "cancelled"
          \/ pools[p].status = "open" /\ pools'[p].status = "expired"
          \/ /\ StatusRank(pools[p].status) < StatusRank(pools'[p].status)
             /\ StatusRank(pools'[p].status) <= 4]_vars

\* C10: a request whose request_ride call has placed it in a pool, and that
\* was not cancelled, is matched while its pool is open or filled and
\* driver_assigned while its pool is driver_assigned, and only then.
C10_RideStatusLockstep ==
    \A r \in NewRideIds :
        (req[r].pc = "done" /\ rides[r].status # "cancelled")
        => LET st == pools[req[r].pool.id].status
           IN /\ st \in {"open", "filled"} => rides[r].status = "matched"
              /\ st = "driver_assigned" => rides[r].status = "driver_assigned"
              /\ rides[r].status = "matched" => st \in {"open", "filled"}
              /\ rides[r].status = "driver_assigned" => st = "driver_assigned"

\* a request_ride call is between the DELETE and the last INSERT of its join
\* of pool p
JoinInProgress(p) ==
    \E r \in NewRideIds : req[r].pc = "recreate" /\ req[r].pool.id = p

\* C11: a join replaces the memberships of its pool in one step: after every
\* step of a join that other processes can observe, the pool holds a
\* membership for each request it held when the join read it and for the
\* joining request; it is never seen emptied or partly recreated.
C11_JoinReplacesAtomically ==
    [][\A r \in NewRideIds :
          (ReqStep(r) /\ req[r].pc \in {"join", "recreate"})
          => (SeqToSet(req[r].cache) \cup {r})
                \subseteq SeqToSet(RideSeq(MembersOf(members', req[r].pool.id)))]_vars

\* C12: whenever no join of pool p is between its DELETE and its last INSERT,
\* the pickup_order values of the N memberships of p are exactly 1..N without
\* repeats, and so are the dropoff_order values.
C12_OrdersArePermutation ==
    \A p \in 1..Len(pools) :
        ~JoinInProgress(p) =>
            LET ms == MembersOf(members, p)
            IN /\ {ms[i].pickup_order : i \in 1..Len(ms)} = 1..Len(ms)
               /\ {ms[i].dropoff_order : i \in 1..Len(ms)} = 1..Len(ms)

\* C13: the step that inserts the last membership of a join goes on to fill
\* the pool exactly when the pool then holds max_riders memberships or more;
\* the fill stores status filled and closed_at = now and enqueues one
\* assign_driver_to_pool for the pool; a join that does not fill enqueues none
\* and leaves closed_at unset.
C13_FillOnReachingMax ==
    [][\A r \in NewRideIds :
          LET p == req[r].pool.id
          IN /\ (req[r].pc = "recreate" /\ ReqStep(r) /\ req'[r].pc # "recreate")
                => /\ (req'[r].pc = "fill") <=> (Len(MembersOf(members', p)) >= pools[p].max_riders)
                   /\ queue' = queue
             /\ (req[r].pc = "fill" /\ ReqStep(r))
                => /\ pools'[p].status = "filled"
                   /\ pools'[p].closed_at = now
                   /\ queue'.assign[p] = queue.assign[p] + 1]_vars

\* the step is the status save of cancel_ride for request r
CancelStep(r) == rides[r].status # "cancelled" /\ rides'[r].status = "cancelled"

\* C15: the candidate list a request_ride call gets from find_matching_pools
\* holds no pool that has zero memberships when the matcher evaluates it, also
\* when a concurrent join has deleted the pool's memberships and not yet
\* recreated them.
C15_NoEmptyPoolMatched ==
    [][\A r \in NewRideIds :
          (req[r].pc = "find" /\ ReqStep(r))
          => \A i \in 1..Len(req'[r].cands) : MemberCount(req'[r].cands[i]) > 0]_vars

\* a join has emptied an open pool that is within its wait window and has
\* recreated nothing yet, and another request has found no candidate
C15_Witness ==
    \E r, q \in NewRideIds :
        /\ req[q].pc = "recreate" /\ req[q].k = 1
        /\ MemberCount(req[q].pool.id) = 0
        /\ pools[req[q].pool.id].status = "open"
        /\ is_within_time_window(pools[req[q].pool.id].created_at, now)
        /\ r # q
        /\ req[r].pc = "new"

\* C18: the cancel of a request whose pool has exactly one membership stores
\* status cancelled for the pool; the cancel of a request whose pool has more
\* memberships deletes that request's membership only and leaves the pool's
\* status and the other memberships, with their orders, as they were.
C18_CancelUpdatesPool ==
    [][\A r \in RideIds :
          (CancelStep(r) /\ PoolStatusOf(r) # "none")
          => LET m == SelectSeq(members, LAMBDA x : x.ride_request = r)[1]
                 p == m.pool
             IN IF MemberCount(p) = 1
                THEN pools'[p].status = "cancelled"
                ELSE /\ pools'[p].status = pools[p].status
                     /\ MembersOf(members', p) = SelectSeq(MembersOf(members, p), LAMBDA x : x # m)]_vars

ValidMatches(rr, t) ==
    SelectSeq([i \in 1..Len(pools) |-> i],
              LAMBDA p :
                 LET ms == CoordSeq(RideSeq(MembersOf(members, p)))
                     pc == calculate_centroid([i \in 1..Len(ms) |-> <<ms[i].plat, ms[i].plng>>])
                     dc == calculate_centroid([i \in 1..Len(ms) |-> <<ms[i].dlat, ms[i].dlng>>])
                 IN /\ pools[p].status = "open"
                    /\ t - pools[p].created_at <= max_wait_time
                    /\ Len(ms) > 0
                    /\ haversine_distance(rr.plat, rr.plng, pc[1], pc[2]) <= max_pickup_distance * 100
                    /\ haversine_distance(rr.dlat, rr.dlng, dc[1], dc[2]) <= max_destination_distance * 100
                    /\ is_route_compatible(rr, ms))

\* C14: a request_ride call joins the first pool of the list the matcher
\* returns when the list is not empty, and its membership is inserted in that
\* pool; when the list is empty it creates a pool in status open and inserts
\* its membership there with pickup_order 1 and dropoff_order 1, the only
\* membership of that pool.
C14_PlacedInFirstCandidate ==
    [][\A r \in NewRideIds :
          LET cands == find_matching_pools(Coord(rides[r].kind), now)
              p == req[r].pool.id
          IN /\ (req[r].pc = "find" /\ ReqStep(r))
                => IF cands # <<>>
                   THEN req'[r].pc = "join" /\ req'[r].pool.id = cands[1]
                   ELSE req'[r].pc = "new"
             /\ (req[r].pc = "recreate" /\ ReqStep(r) /\ req'[r].pc # "recreate")
                => /\ p = req[r].cands[1]
                   /\ members'[Len(members')].pool = p
                   /\ members'[Len(members')].ride_request = r
             /\ (req[r].pc = "new" /\ ReqStep(r))
                => /\ Len(pools') = Len(pools) + 1
                   /\ pools'[Len(pools')].status = "open"
                   /\ req'[r].pool.id = Len(pools')
                   /\ MembersOf(members', Len(pools')) = <<>>
             /\ (req[r].pc = "newmember" /\ ReqStep(r))
                => MembersOf(members', p) = <<Member(p, r, 1)>>]_vars

\* a request that had two candidate pools is a member of the first and not
\* of the second
C14_Witness ==
    \E r \in NewRideIds :
        /\ req[r].pc = "done"
        /\ req[r].result = "joined_pool"
        /\ Len(req[r].cands) = 2
        /\ r \in SeqToSet(RideSeq(MembersOf(members, req[r].cands[1])))
        /\ r \notin SeqToSet(RideSeq(MembersOf(members, req[r].cands[2])))

\* C16: the list a request_ride call gets from find_matching_pools is the
\* list of the pools that meet every condition of a valid match, in query
\* order; a pool that fails one of them is not in it.
C16_MatcherExact ==
    [][\A r \in NewRideIds :
          (req[r].pc = "find" /\ ReqStep(r))
          => LET expect == ValidMatches(Coord(rides[r].kind), now)
             IN IF expect = <<>> THEN req'[r].pc = "new"
                ELSE req'[r].pc = "join" /\ req'[r].cands = expect]_vars

\* a request was matched with pool 2 only, while pool 1 is open and has a
\* member
C16_Witness ==
    \E r \in NewRideIds :
        /\ req[r].pc = "join"
        /\ req[r].cands = <<2>>
        /\ pools[1].status = "open"
        /\ MemberCount(1) > 0

\* C17: the query of one sweep run selects exactly the pools that are open
\* and older than their own max_wait_time; each turn of its loop stores
\* status expired for the selected pool, enqueues one notify_pool_expired for
\* it and leaves every other pool as it is.
C17_SweepExpiresExactly ==
    [][/\ (swp.pc = "idle" /\ swp'.pc = "run")
          => {swp'.list[i].id : i \in 1..Len(swp'.list)}
               = {p \in 1..Len(pools) : /\ pools[p].status = "open"
                                        /\ now - pools[p].created_at > pools[p].max_wait_time}
       /\ (swp.pc = "run" /\ swp' # swp)
          => LET p == Head(swp.list).id
             IN /\ pools[p].status = "open"
                /\ pools'[p].status = "expired"
                /\ queue'.expired[p] = queue.expired[p] + 1
                /\ \A q \in 1..Len(pools) : q # p => pools'[q] = pools[q]]_vars

\* C20: a dispatch whose drivers query finds no eligible driver ends without
\* sending an offer or scheduling a timeout, and no step of a dispatch and no
\* re-dispatch changes a pool, membership, trip or driver row, so the pool
\* stays filled; every run searches the drivers as they are when it runs.
C20_NoDriverLeavesFilled ==
    [][\A p \in PoolIds :
          /\ (dsp'[p] # dsp[p] \/ queue'.assign[p] # queue.assign[p]) => UNCHANGED dbVars
          /\ (dsp[p].pc = "drivers" /\ dsp'[p] # dsp[p])
             => LET nearby == find_available_drivers_near_pool(dsp[p].centroid, MemberCount(p), drivers)
                IN IF nearby = <<>>
                   THEN dsp'[p] = IdleDsp /\ offers' = offers /\ queue' = queue
                   ELSE dsp'[p].nearby = nearby]_vars

\* no driver has reported a position: the first dispatch of the filled pool 1
\* has ended without an offer and a re-dispatch issued by hand is pending
C20_Witness ==
    /\ pools[1].status = "filled"
    /\ \A d \in DriverIds : drivers[d] = DriverRow(TRUE, 4, NULL, NULL)
    /\ hist.manual = 1
    /\ queue.assign[1] = 1
    /\ dsp[1] = IdleDsp
    /\ offers = {}

-----------------------------------------------------------------------------
(* Timeout and dispatch tasks against the status of the pool *)

\* the timeout task of pool p is the one taking a step
WaitStep(p) == queue'.wait[p] < queue.wait[p]

\* C21: a timeout callback delivered for a pool that is stored as
\* driver_assigned, cancelled or expired, or that does not exist, changes no
\* row, sends no offer, enqueues no task and leaves every running task where
\* it is, each time it is delivered.
C21_TimeoutIsNoOp ==
    [][\A p \in PoolIds :
          (WaitStep(p) /\ (~PoolExists(p)
                           \/ pools[p].status \in {"driver_assigned", "cancelled", "expired"}))
             => /\ UNCHANGED <<dbVars, offers, dsp, acc, req, swp, hist>>
                /\ queue'.assign = queue.assign
                /\ queue'.expired = queue.expired]_vars

\* both timeout callbacks of the expired pool 1 have been delivered
C21_Witness ==
    /\ PoolExists(1)
    /\ pools[1].status = "expired"
    /\ queue.wait[1] = 0
    /\ offers = {}

\* C22: a timeout callback delivered while the pool is still filled enqueues
\* a new dispatch of the pool or changes the pool row (a mark for escalation).
C22_TimeoutRedispatchesOrEscalates ==
    [][\A p \in PoolIds :
          (WaitStep(p) /\ PoolExists(p) /\ pools[p].status = "filled")
             => \/ queue'.assign[p] > queue.assign[p]
                \/ pools'[p] # pools[p]]_vars

\* C28: a dispatch task that starts for a pool that does not exist or whose
\* stored status is not filled ends at once: no offer is sent, no timeout is
\* scheduled, no row changes.
C28_DispatchRequiresFilled ==
    [][\A p \in PoolIds :
          (queue'.assign[p] < queue.assign[p] /\ ~(PoolExists(p) /\ pools[p].status = "filled"))
             => /\ dsp'[p].pc = "idle"
                /\ offers' = offers
                /\ queue'.wait = queue.wait
                /\ UNCHANGED <<dbVars, hist>>]_vars

\* the pending dispatch of the driver_assigned pool 1 has run, with eligible
\* drivers registered, and nothing was offered
C28_Witness ==
    /\ PoolExists(1)
    /\ pools[1].status = "driver_assigned"
    /\ queue.assign[1] = 0
    /\ hist.manual = 0
    /\ dsp[1].pc = "idle"
    /\ offers = {}
    /\ \E d \in DriverIds : drivers[d] = DriverRow(TRUE, 4, 10020000, 10000000)

\* the drivers the candidate list of pool p has to hold: available, with
\* room for the members, a position that is not null, within
\* max_assignment_distance of the centroid
EligibleDrivers(p, centroid) ==
    {d \in DriverIds : /\ drivers[d].is_available
                       /\ drivers[d].max_capacity >= MemberCount(p)
                       /\ drivers[d].lat # NULL
                       /\ drivers[d].lng # NULL
                       /\ DriverDistance(centroid, drivers[d]) <= max_assignment_distance * 100}

\* C27: the candidate list the dispatch task computes holds exactly the
\* eligible drivers (a coordinate 0 is a position like any other), each once,
\* in ascending order of distance from the centroid of the pickups.
C27_CandidatesExact ==
    [][\A p \in PoolIds :
          (dsp[p].pc = "drivers" /\ dsp'[p] # dsp[p])
             => LET c == dsp[p].centroid
                    out == IF dsp'[p].pc = "notify" THEN dsp'[p].nearby ELSE <<>>
                IN /\ SeqToSet(out) = EligibleDrivers(p, c)
                   /\ Len(out) = Cardinality(EligibleDrivers(p, c))
                   /\ \A i, j \in 1..Len(out) :
                         i < j => DriverDistance(c, drivers[out[i]]) <= DriverDistance(c, drivers[out[j]])]_vars

-----------------------------------------------------------------------------
(* The pooling scenario and the expiry sweep *)

\* C23: when the request_ride call of request 1 (kind B) has returned and no
\* other request was submitted, request 1 has joined pool 1, whose members
\* are request 0 with orders 1 and request 1 with orders 2; with max_riders 2
\* the pool is filled and one dispatch was enqueued, with a larger max_riders
\* it is open and none was.
C23_NearIdenticalJoins ==
    (req[1].pc = "done" /\ \A r \in NewRideIds \ {1} : rides[r].status = "none")
       => /\ req[1].result = "joined_pool"
          /\ MembersOf(members, 1) = <<Member(1, 0, 1), Member(1, 1, 2)>>
          /\ pools[1].max_riders = 2
                => pools[1].status = "filled" /\ hist.assign_enqueued[1] = 1
          /\ pools[1].max_riders > 2
                => pools[1].status = "open" /\ hist.assign_enqueued[1] = 0

\* C24: no step stores status expired for a pool whose stored status is
\* filled or driver_assigned.
C24_ExpiredOnlyFromOpen ==
    [][\A p \in 1..Len(pools) :
          pools[p].status \in {"filled", "driver_assigned"} => pools'[p].status # "expired"]_vars

-----------------------------------------------------------------------------
(* RouteOptimizer and the route estimate as functions *)

Returned(fn) == call.fn = fn /\ call.pc = "return"

\* C25: the two order maps optimize_route returns have exactly the distinct
\* request ids of the input as keys, and the values of each map are the
\* numbers 1..N, N the number of distinct ids.
C25_OrdersPermutationOfDistinct ==
    Returned("optimize_route")
       => LET ids == SeqToSet(call.ids)
              N == Cardinality(ids)
          IN /\ DOMAIN call.route.pickup_orders = ids
             /\ DOMAIN call.route.dropoff_orders = ids
             /\ {call.route.pickup_orders[id] : id \in ids} = 1..N
             /\ {call.route.dropoff_orders[id] : id \in ids} = 1..N

\* C26: the sequence optimize_route returns is the pickups of the input list
\* in input order followed by the dropoffs in input order, and the k-th
\* request of the input has pickup order k and dropoff order k.
C26_PickupsThenDropoffsInInputOrder ==
    Returned("optimize_route")
       => LET n == Len(call.ids)
          IN /\ Len(call.route.sequence) = 2 * n
             /\ \A k \in 1..n :
                   /\ call.route.sequence[k] = <<call.ids[k], TRUE>>
                   /\ call.route.sequence[n + k] = <<call.ids[k], FALSE>>
                   /\ call.route.pickup_orders[call.ids[k]] = k
                   /\ call.route.dropoff_orders[call.ids[k]] = k

\* C29: the detour check passes exactly when the estimate over the members
\* is 0 or the estimate with the request exceeds it by at most
\* max_detour_percentage percent of it.
C29_DetourCheck ==
    Returned("is_route_compatible")
       => LET base == estimate_pool_route_distance(CallPool(call.kinds))
              withNew == estimate_pool_route_distance(CallRequests(call.kinds))
          IN call.ok <=> (base = 0 \/ 100 * (withNew - base) <= max_detour_percentage * base)

\* the check passed for a pool with a route of positive length that the
\* request makes longer
C29_Witness ==
    /\ Returned("is_route_compatible")
    /\ call.ok
    /\ estimate_pool_route_distance(CallPool(call.kinds)) > 0
    /\ estimate_pool_route_distance(CallRequests(call.kinds))
          > estimate_pool_route_distance(CallPool(call.kinds))

\* the pickup-to-destination leg of a request
OwnLeg(rr) == haversine_distance(rr.plat, rr.plng, rr.dlat, rr.dlng)

\* the own legs of the requests from the i-th on, plus the legs from each
\* pickup to the next pickup
RECURSIVE PickupToPickupRoute(_, _)
PickupToPickupRoute(rs, i) ==
    IF i > Len(rs) THEN 0
    ELSE OwnLeg(rs[i])
         + (IF i > 1 THEN haversine_distance(rs[i - 1].plat, rs[i - 1].plng, rs[i].plat, rs[i].plng)
            ELSE 0)
         + PickupToPickupRoute(rs, i + 1)

\* C30: the route estimate of an empty list is 0, of a list of requests that
\* are all identical within the tolerance the own leg of the first, and of
\* any other list the pickup-to-pickup legs in input order plus the own leg of
\* each request.
C30_EstimateIsPickupChain ==
    Returned("estimate_pool_route_distance")
       => LET rs == CallRequests(call.kinds)
          IN call.distance = IF rs = <<>> THEN 0
                             ELSE IF all_requests_identical(rs) THEN OwnLeg(rs[1])
                             ELSE PickupToPickupRoute(rs, 1)

-----------------------------------------------------------------------------
(* The shared-ride case of the detour check *)

\* C31: when every member of the pool has the pickup and destination of the
\* new request, the detour check passes and the estimate with the request
\* is not larger than the estimate without it (or the latter is 0), so the
\* check passes for every non-negative max_detour_percentage.
C31_IdenticalRequestsPass ==
    (Returned("is_route_compatible") /\ \A i \in 1..Len(call.kinds) : call.kinds[i] = call.kinds[1])
       => LET base == estimate_pool_route_distance(CallPool(call.kinds))
              withNew == estimate_pool_route_distance(CallRequests(call.kinds))
          IN /\ call.ok
             /\ base = 0 \/ withNew <= base

\* the check has passed for a request of kind A against a pool of MaxLen - 1
\* members of kind A
C31_Witness ==
    /\ Returned("is_route_compatible")
    /\ Len(call.kinds) = MaxLen
    /\ \A i \in 1..Len(call.kinds) : call.kinds[i] = "A"
    /\ call.ok

-----------------------------------------------------------------------------
(* Memberships and fares under concurrent submissions *)

\* no request_ride call is in progress
NoCallInProgress == \A r \in NewRideIds : req[r].pc \in {"idle", "done"}

\* C32: when no request_ride call is in progress, every request whose call
\* has returned and that was not cancelled has a membership in the pool the
\* response named.
C32_NoJoinLosesRider ==
    NoCallInProgress
       => \A r \in NewRideIds :
             (req[r].pc = "done" /\ rides[r].status # "cancelled")
                => \E i \in 1..Len(members) :
                      members[i].ride_request = r /\ members[i].pool = req[r].pool.id

\* C33: a ride request has at most one membership row, in all pools together.
C33_OneMembershipPerRequest ==
    \A r \in RideIds : Cardinality({i \in 1..Len(members) : members[i].ride_request = r}) <= 1

\* the sum of the fare estimates of a set of requests
RECURSIVE FareSum(_)
FareSum(S) == IF S = {} THEN 0 ELSE LET r == CHOOSE x \in S : TRUE IN FareOf(r) + FareSum(S \ {r})

\* the estimated_fare of a pool row, an unset fare counting as 0
FareValue(row) == IF row.estimated_fare = NULL THEN 0 ELSE row.estimated_fare

\* C37: when no request_ride call is in progress, no request was cancelled
\* and the sweep has expired no pool, the estimated_fare of every pool is the
\* sum of the fare estimates of its members; and, as long as the sweep has
\* expired no pool, the step that ends a request_ride call adds the fare
\* estimate of its request to the stored fare of its pool and changes nothing
\* else in any pool row.
C37_FareIsSumOfMembers ==
    /\ [](  (NoCallInProgress /\ hist.cancel_errors = 0 /\ swp = IdleSwp
                /\ hist.expired_enqueued = ZeroCount)
            => \A p \in 1..Len(pools) :
                  FareValue(pools[p]) = FareSum(SeqToSet(RideSeq(MembersOf(members, p)))))
    /\ [][\A r \in NewRideIds :
            (req[r].pc \in {"fare", "newfare"} /\ req'[r].pc = "done"
                /\ swp = IdleSwp /\ hist.expired_enqueued = ZeroCount)
               => \A p \in 1..Len(pools) :
                     /\ pools'[p] = [pools[p] EXCEPT !.estimated_fare = pools'[p].estimated_fare]
                     /\ FareValue(pools'[p])
                           = FareValue(pools[p]) + (IF p = req[r].pool.id THEN FareOf(r) ELSE 0)]_vars

-----------------------------------------------------------------------------
(* Drivers and trips *)

\* C34: no driver is the driver of two trips whose pools are both stored as
\* driver_assigned.
C34_DriverInOnePool ==
    \A i, j \in 1..Len(trips) :
       (i # j /\ trips[i].driver = trips[j].driver)
          => ~(pools[trips[i].pool].status = "driver_assigned"
               /\ pools[trips[j].pool].status = "driver_assigned")

\* C35: the driver of every trip was sent an offer for the pool of the trip
\* and has a max_capacity of at least the member count of the pool.
C35_TripDriverWasOffered ==
    \A i \in 1..Len(trips) :
       /\ \E o \in offers : o.driver = trips[i].driver /\ o.pool = trips[i].pool
       /\ drivers[trips[i].driver].max_capacity >= MemberCount(trips[i].pool)

\* C36: when no call is in progress in a run of sequential operations, every
\* open pool has fewer than max_riders members.
C36_OpenPoolBelowCapacity ==
    ~Busy => \A p \in 1..Len(pools) :
                pools[p].status = "open" => MemberCount(p) < pools[p].max_riders

\* C38: with the sweep scheduled and the clock advancing, every open pool
\* eventually has a status other than open (the pools the bounded clock can
\* age: created at MaxTime - expiry_age at the latest).
C38_OpenPoolEventuallyLeavesOpen ==
    \A p \in PoolIds :
       (PoolExists(p) /\ pools[p].status = "open" /\ pools[p].created_at + expiry_age <= MaxTime)
          ~> (PoolExists(p) /\ pools[p].status # "open")

\* a sweep has expired pool 1, which never filled
C38_Witness ==
    /\ PoolExists(1)
    /\ pools[1].status = "expired"
    /\ hist.expired_enqueued[1] >= 1
    /\ hist.assign_enqueued[1] = 0

\* C39: when every enqueued task runs, no pool stays filled forever with no
\* dispatch of it pending or running: again and again the pool is not filled
\* or a dispatch of it is enqueued or in progress.
C39_FilledPoolNotLeft ==
    \A p \in PoolIds :
       []<>(\/ ~(PoolExists(p) /\ pools[p].status = "filled")
            \/ queue.assign[p] > 0
            \/ dsp[p].pc # "idle")

-----------------------------------------------------------------------------
(* The two PoolManager classes *)

\* C40: after the same sequence of create_pool and add_to_pool calls the
\* tables written by matching/pool_manager.py (statuses, closed_at,
\* memberships with their orders, enqueued dispatches) equal the tables written
\* by matching/services.py, whether or not a notification failed.
C40_ManagersEquivalent ==
    call.db = StoredState

====
